---- MODULE Spec2Model ----
(***************************************************************************)
(* A model of airbridge: the scheduler pass (scheduler.py), the manifest   *)
(* store and checkpoint extraction (state.py) and the run cycle (run.py).  *)
(*                                                                         *)
(* Seven specifications share the variables below:                           *)
(*   Spec          scheduler passes over the task list, with the clock,    *)
(*                 the process table and the host load as environment;     *)
(*   FairSpec      Spec with the fairness of the resource-wait loop;       *)
(*   ManifestSpec  the manifest store: process_data_file and its           *)
(*                 save_manifest_content, step by step, with crashes,      *)
(*                 and the scheduler's latest lookup;                      *)
(*   ExtractSpec   checkpoint extraction from a data file, line by line,   *)
(*                 within process_data_file;                               *)
(*   CycleSpec     one run cycle of run.py main: the stages of execute,    *)
(*                 the checkpoint step and the final cleanup;              *)
(*   LockSpec      instances of run.py main entering and leaving the       *)
(*                 block protected by LockManager;                         *)
(*   ScriptSpec    calls of StateHandler.run_state_script for each way     *)
(*                 state_main can end.                                     *)
(***************************************************************************)
EXTENDS Integers, Sequences, FiniteSets, TLC

VARIABLES
    now,        \* wall clock, time.time()
    ledger,     \* table task_run_time: sequence of rows [name, time]
    mfile,      \* manifest.json: [kind, content]
    procs,      \* live process table: the run commands found in command lines
    pc,         \* position of Scheduler.run
    idx,        \* index of the task of the for loop (1-based)
    current_time, \* local of run: time.time() at the evaluation of the task
    state_loc,  \* local of run: result of _get_max_state_from_manifest
    sample,     \* locals of system_resources_below_threshold: last sample
    result,     \* what run() returned / how the pass ended
    eval,       \* history: the last schedule evaluation of the pass
    launched,   \* history: the run command launched for the current task
    apc,        \* position of process_data_file / save_manifest_content
    job,        \* ManifestSpec: arguments of the state.main call in progress
    existing,   \* local existing_manifest_content of save_manifest_content
    before,     \* history: the manifest file when the append started
    data,       \* ExtractSpec: the lines of the data file, file.readlines()
    pos,        \* index of the line of `for line in data` (1-based)
    final_state, \* local final_state of extract_state_from_data
    xpc,        \* position of process_data_file / extract_state_from_data
    first,      \* history: what the first extraction returned
    state_json, \* the state.json file next to the data file
    cpc,        \* CycleSpec: position of run.py main
    images,     \* which of the two connector images the arguments provide
    trace,      \* history: the stages attempted, with their outcomes
    active_containers, \* AirbyteDockerHandler.active_containers
    runtime,    \* names of the containers the container runtime holds
    started,    \* history: names of the containers the run started
    registered, \* history: names ever appended to active_containers
    todo,       \* final_cleanup: the rest of the copy active_containers[:]
    removals,   \* history: the names final_cleanup tried to remove, in order
    executed,   \* what handler.execute() returned
    state_result, \* what run_state_script returned
    report,     \* how main ended
    local_images, \* the sides whose image client.images.list() holds
    src_state_path,  \* whether configuration["state_file_path"] is set
    volumes,    \* history: the volume bindings prepared for each side
    cleanups,   \* history: the calls of cleanup_container, in order
    extractor,  \* history: exit status of the extractor's read process
    commands,   \* history: the entrypoint built for each side's run container
    lpc,        \* LockSpec: position of each instance of main
    has_lock,   \* LockManager._has_lock of each instance
    flock,      \* the lock file (inode) each instance holds locked, 0: none
    lock_file,  \* the inode the lock path names, 0 when there is no file
    inodes,     \* number of lock files created so far
    polls,      \* how long each instance has been polling for the lock
    timed_out,  \* history: the instances whose acquire raised Timeout
    same_dir,   \* whether ".script.lock" in the cwd is the lock path
    script_calls \* ScriptSpec, history: the calls of run_state_script

vars == <<now, ledger, mfile, procs, pc, idx, current_time, state_loc, sample,
          result, eval, launched, apc, job, existing, before,
          data, pos, final_state, xpc, first, state_json,
          cpc, images, trace, active_containers, runtime, started, registered,
          todo, removals, executed, state_result, report,
          local_images, src_state_path, volumes, cleanups, extractor,
          commands,
          lpc, has_lock, flock, lock_file, inodes, polls, timed_out, same_dir,
          script_calls>>

schedVars == <<now, ledger, procs, pc, idx, current_time, state_loc, sample,
               result, eval, launched>>
storeVars == <<apc, job, existing, before>>
extractVars == <<data, pos, final_state, xpc, first, state_json>>
cycleVars == <<cpc, images, trace, active_containers, runtime, started,
               registered, todo, removals, executed, state_result, report,
               local_images, src_state_path, volumes, cleanups, extractor,
               commands>>
lockVars == <<lpc, has_lock, flock, lock_file, inodes, polls, timed_out,
              same_dir>>
scriptVars == <<script_calls>>

(***************************************************************************)
(* Bounds of the model.                                                    *)
(***************************************************************************)
MinTime == 4
MaxTime == 8
MaxEpoch == 3
MaxAppends == 3
MaxInstances == 3
MaxCalls == 3

None == [kind |-> "none"]

(***************************************************************************)
(* Configuration: the task list of the scheduler config. A schedule is a   *)
(* cron expression firing at every multiple of `period` clock units.       *)
(***************************************************************************)
Tasks ==
    << [id |-> "a", name |-> "job-a", enabled |-> TRUE,  period |-> 2],
       [id |-> "b", name |-> "job-b", enabled |-> TRUE,  period |-> 3],
       [id |-> "c", name |-> "job-c", enabled |-> FALSE, period |-> 2] >>

EnabledIds == {Tasks[i].id : i \in {j \in 1..Len(Tasks) : Tasks[j].enabled}}

RESOURCE_THRESHOLD == 80

\* psutil samples around the threshold
Loads == {RESOURCE_THRESHOLD - 1, RESOURCE_THRESHOLD}

(***************************************************************************)
(* Paths and keys. A state file lives at <output>/<image>/<epoch>/state.json; *)
(* only the output directory and the epoch directory matter here.          *)
(***************************************************************************)
OutputPath(id) == IF id = "a" THEN "out/a" ELSE IF id = "b" THEN "out/b" ELSE "out/c"

\* src_config_md5 of the task's source.json: the digest of the file's bytes
\* (the task ids of this configuration are not digests)
SrcConfigMd5(id) == IF id = "a" THEN "md5-a" ELSE IF id = "b" THEN "md5-b" ELSE "md5-c"

NoHash == ""

StateFilePath(id, epoch) == [dir |-> OutputPath(id), epoch |-> epoch]

\* ManifestUtility._extract_epoch_from_path: int(basename(dirname(path)))
ExtractEpochFromPath(path) == path.epoch

\* ManifestUtility.generate_manifest_content: {key_value: [entry]}
GenerateManifestContent(state_file_path, key_value, job_id, data_file_path, wall) ==
    [k \in {key_value} |->
        << [jobid |-> job_id,
            data_file |-> data_file_path,
            state_file_path |-> state_file_path,
            timestamp |-> ExtractEpochFromPath(state_file_path),
            modified_at |-> wall] >>]

\* AirbyteStateHandler._get_key_value
GetKeyValue(config_hash, output_path) ==
    IF config_hash # NoHash THEN config_hash ELSE output_path

(***************************************************************************)
(* The manifest file. kind: "absent", "empty" (zero bytes), "json" (a      *)
(* well-formed document, `content` maps keys to lists of entries) or       *)
(* "torn" (a prefix of a document: malformed JSON), "blank" (whitespace    *)
(* only) or "denied" (a file the process may not open).                    *)
(***************************************************************************)
EmptyMap == [k \in {} |-> <<>>]
Absent == [kind |-> "absent", content |-> EmptyMap]
Truncated == [kind |-> "empty", content |-> EmptyMap]
Blank == [kind |-> "blank", content |-> EmptyMap]
Denied == [kind |-> "denied", content |-> EmptyMap]
Json(content) == [kind |-> "json", content |-> content]
Torn(content) == [kind |-> "torn", content |-> content]

\* dict.get(key, [])
Get(content, key) == IF key \in DOMAIN content THEN content[key] ELSE <<>>

\* save_manifest_content, the merge loop:
\*   existing_manifest_content.setdefault(key, []).extend(new_records)
\* (MergeReplacing: the merge as it would be with existing[key] = new_records)
MergeReplacing(old, new) ==
    [k \in DOMAIN old \cup DOMAIN new |->
        IF k \in DOMAIN new THEN new[k] ELSE old[k]]
Merge(old, new) ==
    [k \in DOMAIN old \cup DOMAIN new |->
        IF k \in DOMAIN new THEN Get(old, k) \o new[k] ELSE old[k]]

(***************************************************************************)
(* Scheduler._get_max_state_from_manifest. The result is {} (kind "dict"), *)
(* the state_file_path of the selected entry (kind "str"), or the          *)
(* exception json.load raises (kind "error").                              *)
(***************************************************************************)
EmptyDict == [kind |-> "dict", path |-> None]
Str(path) == [kind |-> "str", path |-> path]
Raised(name) == [kind |-> "error", path |-> None, error |-> name]

\* the loop of lines 84-89: max_state after the states from position i on
RECURSIVE MaxStateLoop(_, _, _)
MaxStateLoop(states, i, max_state) ==
    IF i > Len(states) THEN max_state
    ELSE IF max_state = None THEN MaxStateLoop(states, i + 1, states[i])
    ELSE IF states[i].timestamp > max_state.timestamp
         THEN MaxStateLoop(states, i + 1, states[i])
         ELSE MaxStateLoop(states, i + 1, max_state)

\* the lookup as it would be if it took the entry appended last
GetMaxStateTakingLast(file, task_id) ==
    IF file.kind = "absent" THEN EmptyDict
    ELSE IF file.kind # "json" THEN Raised("JSONDecodeError")
    ELSE LET states == Get(file.content, task_id) IN
         IF states = <<>> THEN EmptyDict
         ELSE Str(states[Len(states)].state_file_path)
GetMaxStateFromManifest(file, task_id) ==
    IF file.kind = "absent" THEN EmptyDict
    ELSE IF file.kind # "json" THEN Raised("JSONDecodeError")
    ELSE LET states == Get(file.content, task_id) IN
         IF states = <<>> THEN EmptyDict
         ELSE Str(MaxStateLoop(states, 1, None).state_file_path)

(***************************************************************************)
(* The run cycle's checkpoint step (run.py, StateHandler.run_state_script):*)
(* state_main is called with six positional arguments, state.main takes at *)
(* most five, so the call raises TypeError, which run_state_script catches *)
(* (except Exception) and answers with False.                              *)
(***************************************************************************)
StateMainParams == 5
RunStateScriptArgs == 6
\* StateMainCallRaises as it would be if the call passed as many arguments
\* as state.main has parameters
StateMainCallFits == StateMainParams > StateMainParams
StateMainCallRaises == RunStateScriptArgs > StateMainParams

\* save_manifest_content, lines 210-228: the existing manifest content, or
\* the exception open or json.loads raises
\* (ReadManifestStrict: the read as it would be without .strip() and the
\* `if file_content` test, json.loads applied to whatever the file holds)
ReadManifestStrict(file) ==
    IF file.kind = "absent"
    THEN [error |-> "none", content |-> EmptyMap]
    ELSE IF file.kind = "denied"
    THEN [error |-> "PermissionError", content |-> EmptyMap]
    ELSE IF file.kind = "json"
    THEN [error |-> "none", content |-> file.content]
    ELSE [error |-> "JSONDecodeError", content |-> EmptyMap]
ReadManifest(file) ==
    IF file.kind = "absent"
    THEN [error |-> "none", content |-> EmptyMap]
    ELSE IF file.kind = "denied"
    THEN [error |-> "PermissionError", content |-> EmptyMap]
    ELSE LET file_content == IF file.kind = "blank" THEN Truncated ELSE file
         IN  IF file_content.kind = "empty"
             THEN [error |-> "none", content |-> EmptyMap]
             ELSE IF file_content.kind = "json"
             THEN [error |-> "none", content |-> file_content.content]
             ELSE [error |-> "JSONDecodeError", content |-> EmptyMap]

\* save_manifest_content as a whole, when nothing interrupts it
SaveManifestContent(file, manifest_content) ==
    IF ReadManifest(file).error # "none" THEN file
    ELSE Json(Merge(ReadManifest(file).content, manifest_content))

\* the manifest after the run.py cycle of task `id` that ran at `epoch`
RunStateScript(file, id, epoch, wall) ==
    IF StateMainCallRaises THEN file
    ELSE SaveManifestContent(file,
            GenerateManifestContent(StateFilePath(id, epoch),
                GetKeyValue(SrcConfigMd5(id), OutputPath(id)),
                "jobid-rt", OutputPath(id), wall))

(***************************************************************************)
(* Scheduler helpers.                                                      *)
(***************************************************************************)
\* croniter(schedule, t).get_prev(): the latest fire time before t
CronGetPrev(period, t) == ((t - 1) \div period) * period

RECURSIVE MaxTime_(_, _, _)
MaxTime_(rows, name, i) ==
    IF i > Len(rows) THEN 0
    ELSE LET rest == MaxTime_(rows, name, i + 1) IN
         IF rows[i].name = name /\ rows[i].time > rest THEN rows[i].time ELSE rest

\* SELECT MAX(time) FROM task_run_time WHERE name = ?, 0 when NULL
LastRunTime(rows, name) == MaxTime_(rows, name, 1)

\* line 197: if cron.get_prev() >= last_run_time
IsScheduled(fire, last_run_time) == fire >= last_run_time

\* _render_task_cmd: state.get('path') needs a dict; {} has no 'path', so
\* the template gets state_loc = None and renders no -t argument
RenderTaskCmd(task, state) ==
    IF state.kind = "dict"
    THEN [ok |-> TRUE, id |-> task.id, state_loc |-> None]
    ELSE [ok |-> FALSE, id |-> task.id, state_loc |-> None]

\* is_task_running: task_command in ' '.join(process.cmdline())
IsTaskRunning(table, task_command) == task_command \in table

\* system_resources_below_threshold
SystemResourcesBelowThreshold(s) ==
    s.cpu < RESOURCE_THRESHOLD /\ s.mem < RESOURCE_THRESHOLD

NoSample == [cpu |-> -1, mem |-> -1]
NoEval == [idx |-> 0, at |-> 0, last |-> 0, fire |-> 0, due |-> FALSE, running |-> FALSE]
NoCmd == [ok |-> FALSE, id |-> "", state_loc |-> None]

(***************************************************************************)
(* Scheduler.run, one action per step of the pass.                         *)
(*   pc: "loop"     at the head of `for task in self.tasks`                *)
(*       "lookup"   the task is scheduled; before line 202                 *)
(*       "execute"  entering execute_task (line 110)                       *)
(*       "wait"     in the resource loop of execute_task (line 113)        *)
(*       "running"  subprocess.run is executing the run command            *)
(*       "upload"   before upload_logs (line 209)                          *)
(*       "record"   before the INSERT (line 212)                           *)
(*       "done" | "returned" | "crashed"   run() is over                   *)
(***************************************************************************)
Task == Tasks[idx]

\* the commands other invocations may be running
ProcCmds == {RenderTaskCmd(Tasks[i], EmptyDict) : i \in {j \in 1..Len(Tasks) : Tasks[j].enabled}}

ResetLocals ==
    /\ current_time' = 0
    /\ state_loc' = EmptyDict
    /\ sample' = NoSample
    /\ launched' = NoCmd

\* lines 181-197 and 215-216: the next task of the list
Evaluate ==
    /\ pc = "loop" /\ idx <= Len(Tasks)
    /\ IF ~Task.enabled
       THEN /\ idx' = idx + 1
            /\ UNCHANGED <<pc, current_time, eval>>
       ELSE LET last_run_time == LastRunTime(ledger, Task.name)
                fire == CronGetPrev(Task.period, now)
                due == IsScheduled(fire, last_run_time)
            IN  /\ eval' = [idx |-> idx, at |-> now, last |-> last_run_time,
                            fire |-> fire, due |-> due, running |-> FALSE]
                /\ IF due
                   THEN /\ pc' = "lookup" /\ current_time' = now /\ idx' = idx
                   ELSE /\ pc' = "loop" /\ idx' = idx + 1
                        /\ UNCHANGED current_time
    /\ UNCHANGED <<now, ledger, mfile, procs, state_loc, sample, result, launched>>
    /\ UNCHANGED <<storeVars, extractVars, cycleVars, lockVars, scriptVars>>

\* Lookup as it would be if an already running task were only skipped
LookupSkipping ==
    /\ pc = "lookup"
    /\ LET max == GetMaxStateFromManifest(mfile, Task.id)
           cmd == RenderTaskCmd(Task, max)
       IN  IF max.kind = "error"
           THEN /\ pc' = "crashed" /\ result' = max.error
                /\ UNCHANGED <<state_loc, eval, idx>>
           ELSE /\ state_loc' = max
                /\ IF ~cmd.ok
                   THEN /\ pc' = "crashed" /\ result' = "AttributeError"
                        /\ UNCHANGED <<eval, idx>>
                   ELSE IF IsTaskRunning(procs, cmd)
                   THEN /\ pc' = "loop" /\ idx' = idx + 1
                        /\ eval' = [eval EXCEPT !.running = TRUE]
                        /\ UNCHANGED result
                   ELSE /\ pc' = "execute"
                        /\ UNCHANGED <<result, eval, idx>>
    /\ UNCHANGED <<now, ledger, mfile, procs, current_time, sample, launched>>
    /\ UNCHANGED <<storeVars, extractVars, cycleVars, lockVars, scriptVars>>

\* lines 202-205: the checkpoint lookup and the already-running check
Lookup ==
    /\ pc = "lookup"
    /\ LET max == GetMaxStateFromManifest(mfile, Task.id)
           cmd == RenderTaskCmd(Task, max)
       IN  IF max.kind = "error"
           THEN /\ pc' = "crashed" /\ result' = max.error
                /\ UNCHANGED <<state_loc, eval>>
           ELSE /\ state_loc' = max
                /\ IF ~cmd.ok
                   THEN /\ pc' = "crashed" /\ result' = "AttributeError"
                        /\ UNCHANGED eval
                   ELSE IF IsTaskRunning(procs, cmd)
                   THEN /\ pc' = "returned" /\ result' = "2"
                        /\ eval' = [eval EXCEPT !.running = TRUE]
                   ELSE /\ pc' = "execute"
                        /\ UNCHANGED <<result, eval>>
    /\ UNCHANGED <<now, ledger, mfile, procs, idx, current_time, sample, launched>>
    /\ UNCHANGED <<storeVars, extractVars, cycleVars, lockVars, scriptVars>>

\* lines 110-112: execute_task's own check; run() ignores the 2 it returns
ExecuteTask ==
    /\ pc = "execute"
    /\ IF IsTaskRunning(procs, RenderTaskCmd(Task, state_loc))
       THEN /\ pc' = "upload"
            /\ eval' = [eval EXCEPT !.running = TRUE]
       ELSE /\ pc' = "wait"
            /\ UNCHANGED eval
    /\ UNCHANGED <<now, ledger, mfile, procs, idx, current_time, state_loc,
                   sample, result, launched>>
    /\ UNCHANGED <<storeVars, extractVars, cycleVars, lockVars, scriptVars>>

\* Poll as it would be if an overloaded host made the task be skipped
PollGivingUp(cpu, mem, fetched) ==
    /\ pc = "wait"
    /\ sample' = [cpu |-> cpu, mem |-> mem]
    /\ IF ~SystemResourcesBelowThreshold(sample')
       THEN /\ pc' = "loop" /\ idx' = idx + 1
            /\ UNCHANGED <<launched, result>>
       ELSE /\ idx' = idx
            /\ IF fetched
               THEN /\ launched' = RenderTaskCmd(Task, state_loc)
                    /\ pc' = "running"
                    /\ UNCHANGED result
               ELSE /\ pc' = "crashed" /\ result' = "ClientError"
                    /\ UNCHANGED launched
    /\ UNCHANGED <<now, ledger, mfile, procs, current_time, state_loc, eval>>
    /\ UNCHANGED <<storeVars, extractVars, cycleVars, lockVars, scriptVars>>

\* lines 113-128: one turn of the resource loop with the sample (cpu, mem);
\* below the threshold the loop ends, the configs are downloaded (`fetched`
\* tells whether download_configs succeeded) and the command is launched
Poll(cpu, mem, fetched) ==
    /\ pc = "wait"
    /\ sample' = [cpu |-> cpu, mem |-> mem]
    /\ IF ~SystemResourcesBelowThreshold(sample')
       THEN UNCHANGED <<pc, launched, result>>
       ELSE IF fetched
       THEN /\ launched' = RenderTaskCmd(Task, state_loc)
            /\ pc' = "running"
            /\ UNCHANGED result
       ELSE /\ pc' = "crashed" /\ result' = "ClientError"
            /\ UNCHANGED launched
    /\ UNCHANGED <<now, ledger, mfile, procs, idx, current_time, state_loc, eval>>
    /\ UNCHANGED <<storeVars, extractVars, cycleVars, lockVars, scriptVars>>

PollAbove ==
    \E cpu \in Loads, mem \in Loads :
        /\ ~SystemResourcesBelowThreshold([cpu |-> cpu, mem |-> mem])
        /\ Poll(cpu, mem, TRUE)

PollBelow ==
    \E cpu \in Loads, mem \in Loads, fetched \in BOOLEAN :
        /\ SystemResourcesBelowThreshold([cpu |-> cpu, mem |-> mem])
        /\ Poll(cpu, mem, fetched)

\* lines 128-131: the run command ends; check=True raises on a non-zero exit
RunFinish ==
    /\ pc = "running"
    /\ \E returncode \in {0, 1} :
        /\ mfile' = RunStateScript(mfile, Task.id, now, now)
        /\ IF returncode = 0
           THEN pc' = "upload" /\ UNCHANGED result
           ELSE pc' = "crashed" /\ result' = "CalledProcessError"
    /\ UNCHANGED <<now, ledger, procs, idx, current_time, state_loc, sample,
                   eval, launched>>
    /\ UNCHANGED <<storeVars, extractVars, cycleVars, lockVars, scriptVars>>

\* lines 207-209: upload_logs of the task, which may raise
UploadLogs ==
    /\ pc = "upload"
    /\ \E uploaded \in BOOLEAN :
        IF uploaded
        THEN pc' = "record" /\ UNCHANGED result
        ELSE pc' = "crashed" /\ result' = "ClientError"
    /\ UNCHANGED <<now, ledger, mfile, procs, idx, current_time, state_loc,
                   sample, eval, launched>>
    /\ UNCHANGED <<storeVars, extractVars, cycleVars, lockVars, scriptVars>>

\* Record as it would be if the row of the task were updated in place
RecordUpdating ==
    /\ pc = "record"
    /\ ledger' = IF \E r \in 1..Len(ledger) : ledger[r].name = Task.name
                 THEN [r \in 1..Len(ledger) |->
                          IF ledger[r].name = Task.name
                          THEN [name |-> Task.name, time |-> current_time]
                          ELSE ledger[r]]
                 ELSE Append(ledger, [name |-> Task.name, time |-> current_time])
    /\ pc' = "loop" /\ idx' = idx + 1
    /\ eval' = NoEval
    /\ ResetLocals
    /\ UNCHANGED <<now, mfile, procs, result>>
    /\ UNCHANGED <<storeVars, extractVars, cycleVars, lockVars, scriptVars>>

\* Record as it would be if the row carried the time of the insert
RecordAtFinish ==
    /\ pc = "record"
    /\ ledger' = Append(ledger, [name |-> Task.name, time |-> now])
    /\ pc' = "loop" /\ idx' = idx + 1
    /\ eval' = NoEval
    /\ ResetLocals
    /\ UNCHANGED <<now, mfile, procs, result>>
    /\ UNCHANGED <<storeVars, extractVars, cycleVars, lockVars, scriptVars>>

\* lines 210-214: INSERT INTO task_run_time VALUES (name, current_time)
Record ==
    /\ pc = "record"
    /\ ledger' = Append(ledger, [name |-> Task.name, time |-> current_time])
    /\ pc' = "loop" /\ idx' = idx + 1
    /\ eval' = NoEval
    /\ ResetLocals
    /\ UNCHANGED <<now, mfile, procs, result>>
    /\ UNCHANGED <<storeVars, extractVars, cycleVars, lockVars, scriptVars>>

\* lines 217-218: the loop is over
FinishPass ==
    /\ pc = "loop" /\ idx > Len(Tasks)
    /\ pc' = "done" /\ result' = "None"
    /\ UNCHANGED <<now, ledger, mfile, procs, idx, current_time, state_loc,
                   sample, eval, launched>>
    /\ UNCHANGED <<storeVars, extractVars, cycleVars, lockVars, scriptVars>>

\* lines 220-224: the scheduler is invoked again
StartPass ==
    /\ pc \in {"done", "returned", "crashed"}
    /\ pc' = "loop" /\ idx' = 1 /\ result' = "none"
    /\ eval' = NoEval
    /\ ResetLocals
    /\ UNCHANGED <<now, ledger, mfile, procs>>
    /\ UNCHANGED <<storeVars, extractVars, cycleVars, lockVars, scriptVars>>

(***************************************************************************)
(* The environment of the pass: the clock and the process table.           *)
(***************************************************************************)
Tick ==
    /\ now < MaxTime
    /\ now' = now + 1
    /\ UNCHANGED <<ledger, mfile, procs, pc, idx, current_time, state_loc,
                   sample, result, eval, launched>>
    /\ UNCHANGED <<storeVars, extractVars, cycleVars, lockVars, scriptVars>>

ProcStart ==
    /\ \E c \in ProcCmds \ procs : procs' = procs \cup {c}
    /\ UNCHANGED <<now, ledger, mfile, pc, idx, current_time, state_loc,
                   sample, result, eval, launched>>
    /\ UNCHANGED <<storeVars, extractVars, cycleVars, lockVars, scriptVars>>

ProcStop ==
    /\ \E c \in procs : procs' = procs \ {c}
    /\ UNCHANGED <<now, ledger, mfile, pc, idx, current_time, state_loc,
                   sample, result, eval, launched>>
    /\ UNCHANGED <<storeVars, extractVars, cycleVars, lockVars, scriptVars>>

(***************************************************************************)
(* The manifests a pass may find. Keys are whatever the file holds: the    *)
(* task id the lookup uses, or the key the run cycle's append would use.   *)
(***************************************************************************)
EntryAt(key, id, epoch) ==
    GenerateManifestContent(StateFilePath(id, epoch), key, "jobid-rt",
                            OutputPath(id), epoch)

SchedManifests ==
    { Absent,
      Json(Merge(Merge(EntryAt("a", "a", 2), EntryAt("a", "a", 3)),
                 EntryAt("a", "a", 1))),
      Json(EntryAt(GetKeyValue(SrcConfigMd5("b"), OutputPath("b")), "b", 1)),
      Truncated,
      Json([k \in {"a"} |-> <<>>]) }

NoJob == [task |-> "", config_hash |-> NoHash, epoch |-> 0]

\* the state.json file: not there, or holding a dumped final_state
NoStateFile == [written |-> FALSE, content |-> EmptyMap]
StateFile(state) == [written |-> TRUE, content |-> state]

\* no extraction and no run cycle in progress
ExtractIdle ==
    /\ data = <<>> /\ pos = 1 /\ final_state = EmptyMap /\ xpc = "none"
    /\ first = EmptyMap /\ state_json = NoStateFile

\* the two sides of a cycle: the source (extractor) and the destination
Sides == {"src", "dst"}

\* no container of the stage ran to its end
NoExit == -1

\* no volume bindings prepared yet for a side
NoVolumes == [prepared |-> FALSE, state |-> FALSE, error |-> "none"]

\* the history variables of a cycle before anything happened
NoCommand == [built |-> FALSE, state_arg |-> FALSE]
CycleHistoryEmpty ==
    /\ volumes = [side \in Sides |-> NoVolumes]
    /\ cleanups = <<>> /\ extractor = NoExit
    /\ commands = [side \in Sides |-> NoCommand]

CycleIdle ==
    /\ cpc = "none" /\ images = [src |-> FALSE, dst |-> FALSE]
    /\ trace = <<>> /\ active_containers = <<>> /\ runtime = {}
    /\ started = {} /\ registered = {} /\ todo = <<>> /\ removals = <<>>
    /\ executed = "none" /\ state_result = "none" /\ report = "none"
    /\ local_images = {} /\ src_state_path = FALSE
    /\ CycleHistoryEmpty

\* the instances of run.py main that may be started against one lock path
Instances == 1..MaxInstances

\* no instance started, no lock file
LockFree ==
    /\ lpc = [i \in Instances |-> "out"]
    /\ has_lock = [i \in Instances |-> FALSE]
    /\ flock = [i \in Instances |-> 0]
    /\ lock_file = 0 /\ inodes = 0
    /\ polls = [i \in Instances |-> 0]
    /\ timed_out = {}

LockIdle == LockFree /\ same_dir = FALSE

\* run_state_script has not been called on its own
ScriptIdle == script_calls = <<>>

Init ==
    /\ now = MinTime
    /\ ledger = <<>>
    /\ mfile \in SchedManifests
    /\ procs = {}
    /\ pc = "loop" /\ idx = 1 /\ result = "none"
    /\ current_time = 0
    /\ state_loc = EmptyDict
    /\ sample = NoSample
    /\ eval = NoEval
    /\ launched = NoCmd
    /\ apc = "idle" /\ job = NoJob /\ existing = EmptyMap /\ before = Absent
    /\ ExtractIdle /\ CycleIdle /\ LockIdle /\ ScriptIdle

Next ==
    \/ Evaluate \/ Lookup \/ ExecuteTask \/ PollAbove \/ PollBelow
    \/ RunFinish \/ UploadLogs \/ Record \/ FinishPass \/ StartPass
    \/ Tick \/ ProcStart \/ ProcStop

Spec == Init /\ [][Next]_vars

\* the resource loop keeps polling, and the load does fall below the
\* threshold at some poll
FairSpec == Spec /\ WF_vars(PollBelow)

(***************************************************************************)
(* Claims about the scheduler pass.                                        *)
(***************************************************************************)
\* the most recent fire time at or before t
FireAtOrBefore(period, t) == (t \div period) * period

\* due as the specification defines it, for the evaluation e
DueAt(e) == FireAtOrBefore(Tasks[e.idx].period, e.at) > e.last

\* C1: the pass treats an enabled job as due only when the most recent cron
\* fire time at or before now is strictly later than the job's last recorded
\* run time; when it is earlier or equal, the job is skipped.
C1_DueIffFireAfterLastRun ==
    eval # NoEval => (eval.due <=> DueAt(eval))

\* C1, the failing case reached: an evaluation with fire time = last run time
C1_EqualityEvaluated ==
    eval # NoEval /\ eval.fire = eval.last /\ eval.at > eval.last

\* C2: once a run of a job is recorded with timestamp T, no later run of the
\* job is recorded from an evaluation whose most recent cron fire time is at
\* or before T.
C2_OneRunPerFireTime ==
    \A i \in 1..Len(ledger), j \in 1..Len(ledger) :
        (i < j /\ ledger[i].name = ledger[j].name)
        => \A k \in 1..Len(Tasks) :
              Tasks[k].name = ledger[j].name
              => FireAtOrBefore(Tasks[k].period, ledger[j].time) > ledger[i].time

\* C3: a job's run command is launched if and only if the job is due at the
\* evaluation time, no live process runs its rendered command, and the
\* sampled CPU and memory utilisation are both strictly below the threshold.
C3_AdmitIff ==
    (eval # NoEval /\ pc \in {"loop", "returned", "running", "upload", "record"})
    => ((launched # NoCmd)
        <=> (/\ DueAt(eval)
             /\ ~eval.running
             /\ sample # NoSample
             /\ sample.cpu < RESOURCE_THRESHOLD
             /\ sample.mem < RESOURCE_THRESHOLD))

\* the already-running check of run() is about to find the task running
FoundRunning ==
    /\ pc = "lookup"
    /\ GetMaxStateFromManifest(mfile, Task.id).kind = "dict"
    /\ IsTaskRunning(procs, RenderTaskCmd(Task, EmptyDict))

Checkpoints(id) == IF mfile.kind = "json" THEN Get(mfile.content, id) ELSE <<>>

\* C6: for every due enabled job with at least one manifest entry the pass
\* completes the checkpoint lookup and launches a run command whose -t
\* argument is the state_file_path of the entry with the maximum timestamp;
\* the command has no state argument exactly when the job has no entry.
C6_ResumesFromLatestCheckpoint ==
    (eval # NoEval /\ eval.due /\ pc \notin {"loop", "lookup", "done"})
    => LET states == Checkpoints(Task.id) IN
       /\ states # <<>>
          => /\ result # "AttributeError"
             /\ launched # NoCmd
                => \E i \in 1..Len(states) :
                      /\ \A j \in 1..Len(states) :
                            states[j].timestamp <= states[i].timestamp
                      /\ launched.state_loc = states[i].state_file_path
       /\ (states = <<>> /\ launched # NoCmd) => launched.state_loc = None

(***************************************************************************)
(* The manifest store (state.py): process_data_file and the steps of its   *)
(* save_manifest_content. The process may be killed between any two steps. *)
(*   apc: "idle"     no call in progress                                   *)
(*        "merged"   manifest read and merged in memory (line 232)         *)
(*        "opened"   open(manifest, "w") has truncated the file (line 235) *)
(*        "writing"  json.dump has flushed a part of the document          *)
(*        "saved"    the file is written and closed (line 237)             *)
(*        "failed"   the call raised        "crashed"  the process died    *)
(***************************************************************************)
RECURSIVE TotalEntries(_)
TotalEntries(content) ==
    IF DOMAIN content = {} THEN 0
    ELSE LET k == CHOOSE x \in DOMAIN content : TRUE IN
         Len(content[k])
         + TotalEntries([x \in DOMAIN content \ {k} |-> content[x]])

\* the entry process_data_file builds for the call `j`
JobKey(j) == GetKeyValue(j.config_hash, OutputPath(j.task))
JobContent(j) ==
    GenerateManifestContent(StateFilePath(j.task, j.epoch), JobKey(j),
                            "jobid-rt", OutputPath(j.task), now)
JobEntry(j) == JobContent(j)[JobKey(j)][1]

\* lines 297-326 and 197-232: state.main is called for a data file of task
\* `task` found under the directory `epoch`; the manifest is read and merged
ProcessDataFile ==
    /\ apc = "idle"
    /\ TotalEntries(mfile.content) < MaxAppends
    /\ \E task \in EnabledIds, epoch \in 1..MaxEpoch :
       \E config_hash \in {NoHash, SrcConfigMd5(task)} :
        /\ job' = [task |-> task, config_hash |-> config_hash, epoch |-> epoch]
        /\ before' = mfile
        /\ IF ReadManifest(mfile).error # "none"
           THEN apc' = "failed" /\ existing' = EmptyMap
           ELSE /\ apc' = "merged"
                /\ existing' = Merge(ReadManifest(mfile).content,
                                     JobContent(job'))
    /\ UNCHANGED mfile
    /\ UNCHANGED <<schedVars, extractVars, cycleVars, lockVars, scriptVars>>

\* line 235: open(manifest_file_path, "w")
OpenManifest ==
    /\ apc = "merged"
    /\ mfile' = Truncated
    /\ apc' = "opened"
    /\ UNCHANGED <<job, existing, before>>
    /\ UNCHANGED <<schedVars, extractVars, cycleVars, lockVars, scriptVars>>

\* line 236: json.dump, a first part of the document reaches the file
WriteChunk ==
    /\ apc = "opened"
    /\ mfile' = Torn(existing)
    /\ apc' = "writing"
    /\ UNCHANGED <<job, existing, before>>
    /\ UNCHANGED <<schedVars, extractVars, cycleVars, lockVars, scriptVars>>

\* lines 236-237: the rest of the document is written and the file closed
CloseManifest ==
    /\ apc = "writing"
    /\ mfile' = Json(existing)
    /\ apc' = "saved"
    /\ UNCHANGED <<job, existing, before>>
    /\ UNCHANGED <<schedVars, extractVars, cycleVars, lockVars, scriptVars>>

\* the process is killed during save_manifest_content
Crash ==
    /\ apc \in {"merged", "opened", "writing"}
    /\ apc' = "crashed"
    /\ UNCHANGED <<mfile, job, existing, before>>
    /\ UNCHANGED <<schedVars, extractVars, cycleVars, lockVars, scriptVars>>

\* the call is over; a later call starts from the file alone
Return ==
    /\ apc \in {"saved", "failed", "crashed"}
    /\ apc' = "idle"
    /\ job' = NoJob /\ existing' = EmptyMap /\ before' = Absent
    /\ UNCHANGED mfile
    /\ UNCHANGED <<schedVars, extractVars, cycleVars, lockVars, scriptVars>>

ManifestInit ==
    /\ now = MinTime
    /\ ledger = <<>>
    /\ mfile \in {Absent, Blank}
    /\ procs = {}
    /\ pc = "loop" /\ idx = 1 /\ result = "none"
    /\ current_time = 0
    /\ state_loc = EmptyDict
    /\ sample = NoSample
    /\ eval = NoEval
    /\ launched = NoCmd
    /\ apc = "idle" /\ job = NoJob /\ existing = EmptyMap /\ before = Absent
    /\ ExtractIdle /\ CycleIdle /\ LockIdle /\ ScriptIdle

ManifestNext ==
    \/ ProcessDataFile \/ OpenManifest \/ WriteChunk \/ CloseManifest
    \/ Crash \/ Return

ManifestSpec == ManifestInit /\ [][ManifestNext]_vars

(***************************************************************************)
(* Claims about the manifest store.                                        *)
(***************************************************************************)
\* C7: the entry appended at the end of job J's cycle is stored under the
\* key the scheduler uses to look up J's latest checkpoint: starting with no
\* manifest file, after one append for J the latest lookup for J (by J's
\* task id) returns that entry.
C7_AppendedUnderLookupKey ==
    (apc = "saved" /\ before.kind = "absent")
    => GetMaxStateFromManifest(mfile, job.task)
       = Str(StateFilePath(job.task, job.epoch))

\* C7, the case reached: a first append on an absent manifest, made with the
\* config hash the run cycle computes
C7_FirstAppendSaved ==
    /\ apc = "saved" /\ before.kind = "absent"
    /\ job.config_hash = SrcConfigMd5(job.task)
    /\ JobKey(job) \in DOMAIN mfile.content

\* C8: after any sequence of appends to a key, in any order of their
\* timestamps, the latest lookup for the key selects an entry with the
\* maximum timestamp among all entries of the key, not the last appended.
C8_LatestIsMaxTimestamp ==
    mfile.kind = "json"
    => \A key \in DOMAIN mfile.content :
          LET states == mfile.content[key]
              latest == GetMaxStateFromManifest(mfile, key)
          IN  /\ latest.kind = "str"
              /\ \E i \in 1..Len(states) :
                    /\ states[i].state_file_path = latest.path
                    /\ \A j \in 1..Len(states) :
                          states[j].timestamp <= states[i].timestamp

\* C8, its case reached: a key with three entries whose maximum timestamp is
\* neither the first nor the last appended
C8_MaxInTheMiddle ==
    /\ mfile.kind = "json"
    /\ \E key \in DOMAIN mfile.content :
          LET states == mfile.content[key] IN
          /\ Len(states) = 3
          /\ states[2].timestamp > states[1].timestamp
          /\ states[2].timestamp > states[3].timestamp
          /\ GetMaxStateFromManifest(mfile, key).path = states[2].state_file_path

\* `new` holds every list of `old` as a prefix of its own list of the key
KeepsHistory(old, new) ==
    \A k \in DOMAIN old :
        /\ k \in DOMAIN new
        /\ Len(new[k]) >= Len(old[k])
        /\ SubSeq(new[k], 1, Len(old[k])) = old[k]

\* C9: a successful append never replaces history: every entry the manifest
\* held before is still there, unchanged and in the same order under the
\* same key; the new entry is added at the end of its key's list (created if
\* absent) and the lists of all other keys are unchanged.
C9_AppendKeepsHistory ==
    apc = "saved"
    => /\ mfile.kind = "json"
       /\ KeepsHistory(before.content, mfile.content)
       /\ DOMAIN mfile.content = DOMAIN before.content \cup {JobKey(job)}
       /\ mfile.content[JobKey(job)]
          = Append(Get(before.content, JobKey(job)), JobEntry(job))
       /\ \A k \in DOMAIN before.content \ {JobKey(job)} :
             mfile.content[k] = before.content[k]

\* C9, its case reached: an append to a key that already had a list, with
\* another key in the manifest
C9_AppendedToExistingList ==
    /\ apc = "saved"
    /\ Get(before.content, JobKey(job)) # <<>>
    /\ DOMAIN before.content \ {JobKey(job)} # {}

\* C10: manifest writes survive a crash: if the process stops at any point
\* during an append, the manifest file read afterwards still contains every
\* entry it held before that append.
C10_CrashKeepsHistory ==
    (apc = "crashed" /\ TotalEntries(before.content) > 0)
    => /\ mfile.kind = "json"
       /\ KeepsHistory(before.content, mfile.content)

\* C15: append on a manifest file that exists but is empty, or holds only
\* whitespace, behaves exactly as append on an absent manifest: it succeeds
\* and leaves a manifest whose only content is the new entry under its key.
C15_EmptyFileAsAbsent ==
    (apc \in {"saved", "failed"} /\ before.kind \in {"empty", "blank"})
    => /\ apc = "saved"
       /\ mfile = SaveManifestContent(Absent, JobContent(job))
       /\ DOMAIN mfile.content = {JobKey(job)}
       /\ mfile.content[JobKey(job)] = <<JobEntry(job)>>

\* C15, its case reached: an append completed on a zero-byte manifest
C15_AppendedOnEmptyFile ==
    apc = "saved" /\ before = Truncated /\ mfile.kind = "json"

(***************************************************************************)
(* Checkpoint extraction (state.py, StateExtractor.extract_state_from_data *)
(* within process_data_file). A line of the data file is one of            *)
(*   "state"    a JSON object with a "state" member naming its stream,     *)
(*              whose "data" member maps stream names to payloads          *)
(*   "record"   a JSON object without a "state" member                     *)
(*   "garbage"  text that is not JSON                                      *)
(*   "nostream" a JSON object whose "state" member has no "stream"         *)
(***************************************************************************)
MaxLines == 3

Streams == {"users", "orders"}
Createds == {0, 3, 5, 9}
Cursors == {"a", "b"}

\* payloads: {} , one without "created", and {created, cursor}
EmptyPayload == [k \in {} |-> 0]
Payloads ==
    {EmptyPayload, [cursor |-> "a"], [cursor |-> "b"]}
    \cup {[created |-> c, cursor |-> x] : c \in Createds \ {0}, x \in Cursors}
    \cup {[created |-> 0, cursor |-> "a"]}

\* the "data" member: no key of the stream, or the stream's payload
NoData == [k \in {} |-> EmptyPayload]
DataOf(stream, payload) == [k \in {stream} |-> payload]

StateLine(stream, d) == [kind |-> "state", stream |-> stream, data |-> d]
RecordLine == [kind |-> "record"]
GarbageLine == [kind |-> "garbage"]
NoStreamLine == [kind |-> "nostream"]

Lines ==
    {StateLine("users", DataOf("users", p)) : p \in Payloads}
    \cup {StateLine("users", NoData),
          StateLine("orders", DataOf("orders", [created |-> 5, cursor |-> "a"])),
          StateLine("orders", NoData),
          RecordLine, GarbageLine, NoStreamLine}

DataFiles == UNION {[1..n -> Lines] : n \in 0..MaxLines}

\* dict.get(key, default)
DictGet(d, key, default) == IF key \in DOMAIN d THEN d[key] ELSE default

\* lines 95-100: what json.loads and the subscripts raise for the line
LineError(line) ==
    IF line.kind = "garbage" THEN "Exception"
    ELSE IF line.kind = "nostream" THEN "KeyError"
    ELSE "none"

\* lines 101-104: the payload of a state line, {"created": 0} when falsy
StreamData(line) ==
    LET stream_data == DictGet(line.data, line.stream, EmptyPayload)
    IN  IF stream_data = EmptyPayload THEN [created |-> 0] ELSE stream_data

\* .get("created", 0)
Created(stream_data) == DictGet(stream_data, "created", 0)

\* lines 106-109: the update of final_state by one state line
\* (UpdateFinalStateLastLine: the update as it would be if every state line
\* replaced the snapshot of its stream)
UpdateFinalStateLastLine(state, stream_name, stream_data) ==
    [s \in DOMAIN state \cup {stream_name} |->
        IF s = stream_name THEN stream_data ELSE state[s]]
\* (UpdateFinalStateOnEqual: the update as it would be with <= in place of <)
UpdateFinalStateOnEqual(state, stream_name, stream_data) ==
    IF \/ stream_name \notin DOMAIN state
       \/ Created(state[stream_name]) <= Created(stream_data)
    THEN [s \in DOMAIN state \cup {stream_name} |->
             IF s = stream_name THEN stream_data ELSE state[s]]
    ELSE state
UpdateFinalState(state, stream_name, stream_data) ==
    IF \/ stream_name \notin DOMAIN state
       \/ Created(state[stream_name]) < Created(stream_data)
    THEN [s \in DOMAIN state \cup {stream_name} |->
             IF s = stream_name THEN stream_data ELSE state[s]]
    ELSE state

\* lines 88-114 as a function of the lines: the loop from line i on
RECURSIVE ExtractLoop(_, _, _)
ExtractLoop(lines, i, state) ==
    IF i > Len(lines) THEN [error |-> "none", final_state |-> state]
    ELSE IF LineError(lines[i]) # "none"
    THEN [error |-> LineError(lines[i]), final_state |-> state]
    ELSE IF lines[i].kind = "state"
    THEN ExtractLoop(lines, i + 1,
             UpdateFinalState(state, lines[i].stream, StreamData(lines[i])))
    ELSE ExtractLoop(lines, i + 1, state)

ExtractStateFromData(lines) == ExtractLoop(lines, 1, EmptyMap)

(***************************************************************************)
(* process_data_file with its extraction, line by line, followed by a      *)
(* second extraction from the same file (_extract_state_from_file).        *)
(*   xpc: "extract"     in the loop of the first extraction (line 93)      *)
(*        "extracted"   final_state returned to process_data_file          *)
(*        "saved_state" state.json written (line 308)                      *)
(*        "appended"    manifest saved (line 326)                          *)
(*        "again"       in the loop of the second extraction               *)
(*        "done"        the second extraction returned                     *)
(*        "raised"      the call in progress raised                        *)
(***************************************************************************)
\* the call whose data file is processed
ExtractJob == [task |-> "a", config_hash |-> SrcConfigMd5("a"), epoch |-> 1]

\* ExtractLine as it would be if `data` were an iterator the loop consumes
ExtractLineConsuming ==
    /\ xpc \in {"extract", "again"} /\ pos <= Len(data)
    /\ LET line == data[pos] IN
       IF LineError(line) # "none"
       THEN /\ xpc' = "raised"
            /\ UNCHANGED <<data, final_state>>
       ELSE /\ data' = SubSeq(data, 1, pos - 1) \o SubSeq(data, pos + 1, Len(data))
            /\ final_state' =
                  IF line.kind = "state"
                  THEN UpdateFinalState(final_state, line.stream, StreamData(line))
                  ELSE final_state
            /\ UNCHANGED xpc
    /\ UNCHANGED <<pos, first, state_json, mfile>>
    /\ UNCHANGED <<schedVars, storeVars, cycleVars, lockVars, scriptVars>>

\* ExtractLine as it would be if a line that does not parse were skipped
ExtractLineSkipping ==
    /\ xpc \in {"extract", "again"} /\ pos <= Len(data)
    /\ LET line == data[pos] IN
       /\ pos' = pos + 1
       /\ final_state' =
             IF LineError(line) = "none" /\ line.kind = "state"
             THEN UpdateFinalState(final_state, line.stream, StreamData(line))
             ELSE final_state
    /\ UNCHANGED <<data, xpc, first, state_json, mfile>>
    /\ UNCHANGED <<schedVars, storeVars, cycleVars, lockVars, scriptVars>>

\* lines 93-111: one turn of `for line in data`
ExtractLine ==
    /\ xpc \in {"extract", "again"} /\ pos <= Len(data)
    /\ LET line == data[pos] IN
       IF LineError(line) # "none"
       THEN /\ xpc' = "raised"
            /\ UNCHANGED <<pos, final_state>>
       ELSE /\ pos' = pos + 1
            /\ final_state' =
                  IF line.kind = "state"
                  THEN UpdateFinalState(final_state, line.stream, StreamData(line))
                  ELSE final_state
            /\ UNCHANGED xpc
    /\ UNCHANGED <<data, first, state_json, mfile>>
    /\ UNCHANGED <<schedVars, storeVars, cycleVars, lockVars, scriptVars>>

\* line 114: the loop is over, final_state is returned
ReturnFinalState ==
    /\ xpc \in {"extract", "again"} /\ pos > Len(data)
    /\ IF xpc = "extract"
       THEN xpc' = "extracted" /\ first' = final_state
       ELSE xpc' = "done" /\ UNCHANGED first
    /\ UNCHANGED <<data, pos, final_state, state_json, mfile>>
    /\ UNCHANGED <<schedVars, storeVars, cycleVars, lockVars, scriptVars>>

\* lines 308-310 and 130-140: save_state_to_file, which may raise
SaveStateToFile ==
    /\ xpc = "extracted"
    /\ \E written \in BOOLEAN :
        IF written
        THEN xpc' = "saved_state" /\ state_json' = StateFile(final_state)
        ELSE xpc' = "raised" /\ UNCHANGED state_json
    /\ UNCHANGED <<data, pos, final_state, first, mfile>>
    /\ UNCHANGED <<schedVars, storeVars, cycleVars, lockVars, scriptVars>>

\* SaveManifest as it would be if the entry could be saved before the state
\* file is written
SaveManifestUnordered ==
    /\ xpc \in {"extracted", "saved_state"}
    /\ IF ReadManifest(mfile).error # "none"
       THEN xpc' = "raised" /\ UNCHANGED mfile
       ELSE /\ xpc' = "appended"
            /\ mfile' = SaveManifestContent(mfile, JobContent(ExtractJob))
    /\ UNCHANGED <<data, pos, final_state, first, state_json>>
    /\ UNCHANGED <<schedVars, storeVars, cycleVars, lockVars, scriptVars>>

\* lines 313-326: the manifest entry is generated and saved
SaveManifest ==
    /\ xpc = "saved_state"
    /\ IF ReadManifest(mfile).error # "none"
       THEN xpc' = "raised" /\ UNCHANGED mfile
       ELSE /\ xpc' = "appended"
            /\ mfile' = SaveManifestContent(mfile, JobContent(ExtractJob))
    /\ UNCHANGED <<data, pos, final_state, first, state_json>>
    /\ UNCHANGED <<schedVars, storeVars, cycleVars, lockVars, scriptVars>>

\* lines 336-341 and 88: the same file is read and extracted once more
ExtractAgain ==
    /\ xpc = "appended"
    /\ xpc' = "again" /\ pos' = 1 /\ final_state' = EmptyMap
    /\ UNCHANGED <<data, first, state_json, mfile>>
    /\ UNCHANGED <<schedVars, storeVars, cycleVars, lockVars, scriptVars>>

\* the scheduler is not running
SchedIdle ==
    /\ now = MinTime /\ ledger = <<>> /\ procs = {}
    /\ pc = "loop" /\ idx = 1 /\ result = "none"
    /\ current_time = 0 /\ state_loc = EmptyDict /\ sample = NoSample
    /\ eval = NoEval /\ launched = NoCmd

\* the manifests process_data_file may find
ExtractManifests ==
    {Absent, Json(EntryAt(JobKey(ExtractJob), "a", 2)), Torn(EmptyMap)}

ExtractInit ==
    /\ SchedIdle /\ CycleIdle /\ LockIdle /\ ScriptIdle
    /\ mfile \in ExtractManifests
    /\ apc = "idle" /\ job = NoJob /\ existing = EmptyMap /\ before = mfile
    /\ data \in DataFiles
    /\ pos = 1 /\ final_state = EmptyMap /\ xpc = "extract"
    /\ first = EmptyMap /\ state_json = NoStateFile

ExtractNext ==
    \/ ExtractLine \/ ReturnFinalState \/ SaveStateToFile \/ SaveManifest
    \/ ExtractAgain

ExtractSpec == ExtractInit /\ [][ExtractNext]_vars

(***************************************************************************)
(* Claims about checkpoint extraction.                                     *)
(***************************************************************************)
\* the positions of the state lines of the stream in the data file
StateLinesOf(stream) ==
    {i \in 1..Len(data) : data[i].kind = "state" /\ data[i].stream = stream}

\* C11: for every sequence of output lines and every stream, the final
\* snapshot of the stream is the payload of a state line of that stream whose
\* created value is the maximum over all state lines of the stream (a missing
\* created, or a missing or empty payload, counting as 0), whatever the order
\* of the lines; a stream without state lines has no snapshot.
C11_SnapshotHasMaxCreated ==
    xpc \in {"extracted", "saved_state", "appended"}
    => \A s \in Streams :
          IF StateLinesOf(s) = {} THEN s \notin DOMAIN final_state
          ELSE /\ s \in DOMAIN final_state
               /\ \E i \in StateLinesOf(s) :
                     final_state[s] = StreamData(data[i])
               /\ \A j \in StateLinesOf(s) :
                     Created(StreamData(data[j])) <= Created(final_state[s])

\* C11, its case reached: created values 5, 3, 9 in that order give 9
C11_FiveThreeNine ==
    /\ xpc = "extracted" /\ Len(data) = 3
    /\ StateLinesOf("users") = {1, 2, 3}
    /\ Created(StreamData(data[1])) = 5
    /\ Created(StreamData(data[2])) = 3
    /\ Created(StreamData(data[3])) = 9
    /\ Created(final_state["users"]) = 9

\* a line that does not parse as the expected structure
Malformed(line) == line.kind \in {"garbage", "nostream"}

\* C12: if any line of the data file fails to parse as the expected
\* structure, the extraction aborts with an error: the call never gets past
\* the extraction, no state.json is written and the manifest is left as it
\* was, whatever valid state lines come before or after the malformed line.
C12_MalformedLineAborts ==
    (\E i \in 1..Len(data) : Malformed(data[i]))
    => /\ xpc \in {"extract", "raised"}
       /\ state_json = NoStateFile
       /\ mfile = before
       /\ \A i \in 1..(pos - 1) : ~Malformed(data[i])
       /\ xpc = "raised" => Malformed(data[pos])

\* C12, its case reached: the extraction raised at a malformed line that
\* stands between two valid state lines
C12_AbortedBetweenValidLines ==
    /\ xpc = "raised" /\ Len(data) = 3 /\ pos = 2
    /\ data[1].kind = "state" /\ Malformed(data[2]) /\ data[3].kind = "state"
    /\ DOMAIN final_state # {}

ExitStatuses == {0, 1}

Pull(side) == IF side = "src" THEN "PULL_SRC" ELSE "PULL_DST"
Validate(side) == IF side = "src" THEN "VALIDATE_SRC" ELSE "VALIDATE_DST"
Run(side) == IF side = "src" THEN "RUN_SRC" ELSE "RUN_DST"

Event(stage, outcome, exit) ==
    [stage |-> stage, outcome |-> outcome, exit |-> exit]

\* container names, unique per invocation (uuid4)
CheckName(side) == IF side = "src" THEN "src_clear" ELSE "dst_clear"
RunName(side) == IF side = "src" THEN "src_run" ELSE "dst_run"

\* client.containers.run: with detach=True the call returns the container as
\* soon as it is started; only a call with detach=False waits for the exit
\* and raises docker.errors.ContainerError on a non-zero status
ContainersRunRaises(detach, status) == ~detach /\ status # 0

\* CleanupContainer as it would be if a missing container were a failure
CleanupContainerStrict(name, held, api_ok) ==
    IF api_ok /\ name \in held
    THEN [result |-> TRUE, runtime |-> held \ {name}]
    ELSE [result |-> FALSE, runtime |-> held]

\* cleanup_container: True when the container was removed or is not found,
\* False when the runtime API fails (api_ok = FALSE)
CleanupContainer(name, held, api_ok) ==
    IF api_ok THEN [result |-> TRUE, runtime |-> held \ {name}]
    ELSE [result |-> FALSE, runtime |-> held]

\* what run_state_script returns for the manifest it would append to: the
\* TypeError of the call goes to `except Exception` (False); a JSONDecodeError
\* from state_main goes to a branch without return (None)
RunStateScriptReturn(file) ==
    IF StateMainCallRaises THEN "False"
    ELSE IF ReadManifest(file).error = "JSONDecodeError" THEN "None"
    ELSE IF ReadManifest(file).error # "none" THEN "False"
    ELSE "True"

\* the ways a call of state_main can end: it returns ("none") or raises
StateMainEndings ==
    {"none", "FileNotFoundError", "JSONDecodeError", "TypeError", "Exception"}

\* lines 221-254: what run_state_script returns when state_main ends with
\* `raised`. `return True` follows the call; the FileNotFoundError and the
\* JSONDecodeError clauses log and fall off the end of the function (None);
\* only the `except Exception` clause has `return False`
RunStateScriptResult(raised) ==
    IF raised = "none" THEN "True"
    ELSE IF raised \in {"FileNotFoundError", "JSONDecodeError"} THEN "None"
    ELSE "False"

\* the task of the cycle
CycleTask == "a"

\* what a cycle is given and never changes
cycleConfig == <<images, local_images, src_state_path>>

VolumesOf(side) == IF side = "src" THEN "VOLUMES_SRC" ELSE "VOLUMES_DST"

\* is_image_present: the image is among the tags of client.images.list()
IsImagePresent(side, local) == side \in local

\* PreparedVolumes as it would be if the checkpoint file were never bound
PreparedVolumesUnbound(side, configured) ==
    [prepared |-> TRUE, state |-> FALSE, error |-> "none"]

\* _prepare_src_volumes / _prepare_dst_volumes: the common bindings, and for
\* the source the checkpoint file bound to /state.json when one is configured
PreparedVolumes(side, configured) ==
    [prepared |-> TRUE, state |-> (side = "src" /\ configured), error |-> "none"]

\* lines 646-658: construct_src_command adds `--state /state.json` when
\* configuration.get("state_file_path") is set; construct_dst_command never
ConstructCommand(side, configured) ==
    [built |-> TRUE, state_arg |-> (side = "src" /\ configured)]

\* the exit status of a run container, `bash -c "<pipeline>"`: the status of
\* the last command of the pipeline. The source runs `read ... | tee file`
\* (line 653), the destination `cat file | write ...` (line 658); `connector`
\* is the status of the connector process, `other` that of tee or cat
ContainerExit(side, connector, other) ==
    IF side = "src" THEN other ELSE connector

\* one call of cleanup_container as the history records it
CleanupCall(name, by, held, api_ok) ==
    [name |-> name, by |-> by, held |-> held, api_ok |-> api_ok,
     result |-> CleanupContainer(name, held, api_ok).result,
     runtime |-> CleanupContainer(name, held, api_ok).runtime]

\* HandleDocker as it would be without the check_image_provided tests
HandleDockerUnchecked ==
    /\ cpc = "main"
    /\ \E made \in {"handler", "None", "error"} :
        IF made = "error"
        THEN /\ cpc' = "end" /\ report' = "exit 1"
             /\ UNCHANGED executed
        ELSE IF made = "None"
        THEN /\ cpc' = "end" /\ report' = "not initialized"
             /\ UNCHANGED executed
        ELSE /\ cpc' = Pull("src")
             /\ UNCHANGED <<executed, report>>
    /\ UNCHANGED <<trace, active_containers, runtime, started,
                   registered, todo, removals, state_result, mfile>>
    /\ UNCHANGED <<cycleConfig, volumes, cleanups, extractor, commands>>
    /\ UNCHANGED <<schedVars, storeVars, extractVars, lockVars, scriptVars>>

\* lines 892-910 and 629-635: arguments, handle_docker, entry of execute
HandleDocker ==
    /\ cpc = "main"
    /\ \E made \in {"handler", "None", "error"} :
        IF made = "error"
        THEN /\ cpc' = "end" /\ report' = "exit 1"
             /\ UNCHANGED executed
        ELSE IF made = "None"
        THEN /\ cpc' = "end" /\ report' = "not initialized"
             /\ UNCHANGED executed
        ELSE IF ~images.src \/ ~images.dst
        THEN /\ cpc' = "state" /\ executed' = "False"
             /\ UNCHANGED report
        ELSE /\ cpc' = Pull("src")
             /\ UNCHANGED <<executed, report>>
    /\ UNCHANGED <<trace, active_containers, runtime, started,
                   registered, todo, removals, state_result, mfile>>
    /\ UNCHANGED <<cycleConfig, volumes, cleanups, extractor, commands>>
    /\ UNCHANGED <<schedVars, storeVars, extractVars, lockVars, scriptVars>>

\* PullDockerImage as it would be if the registry were asked every time
PullDockerImageAlways(side) ==
    /\ cpc = Pull(side)
    /\ \E outcome \in {"pulled", "DockerImageNotFoundError", "Exception"} :
        /\ trace' = Append(trace, Event(Pull(side), outcome, NoExit))
        /\ IF outcome = "pulled"
           THEN cpc' = VolumesOf(side) /\ UNCHANGED executed
           ELSE cpc' = "state" /\ executed' = "False"
    /\ UNCHANGED <<active_containers, runtime, started, registered,
                   todo, removals, state_result, report, mfile>>
    /\ UNCHANGED <<cycleConfig, volumes, cleanups, extractor, commands>>
    /\ UNCHANGED <<schedVars, storeVars, extractVars, lockVars, scriptVars>>

\* lines 662 / 687 and 516-535: pull_docker_image inside process_*_image;
\* `pulled` is how client.images.pull ends when it is called
PullDockerImage(side) ==
    /\ cpc = Pull(side)
    /\ \E pulled \in {"pulled", "DockerImageNotFoundError", "Exception"} :
        LET outcome == IF IsImagePresent(side, local_images)
                       THEN "present" ELSE pulled
        IN  /\ trace' = Append(trace, Event(Pull(side), outcome, NoExit))
            /\ IF outcome \in {"present", "pulled"}
               THEN cpc' = VolumesOf(side) /\ UNCHANGED executed
               ELSE cpc' = "state" /\ executed' = "False"
    /\ UNCHANGED <<active_containers, runtime, started, registered,
                   todo, removals, state_result, report, mfile>>
    /\ UNCHANGED <<cycleConfig, volumes, cleanups, extractor, commands>>
    /\ UNCHANGED <<schedVars, storeVars, extractVars, lockVars, scriptVars>>

\* lines 663 / 688 and 467-501: the volume bindings of the side. With a
\* checkpoint path configured the source creates the file when it is missing
\* (`created` tells whether that open succeeded), which may raise
PrepareVolumes(side) ==
    /\ cpc = VolumesOf(side)
    /\ \E created \in BOOLEAN :
        IF side = "src" /\ src_state_path /\ ~created
        THEN /\ volumes' = [volumes EXCEPT ![side].error = "OSError"]
             /\ cpc' = "state" /\ executed' = "False"
        ELSE /\ volumes' = [volumes EXCEPT
                               ![side] = PreparedVolumes(side, src_state_path)]
             /\ cpc' = Validate(side)
             /\ UNCHANGED executed
    /\ UNCHANGED <<trace, active_containers, runtime, started, registered,
                   todo, removals, state_result, report, mfile>>
    /\ UNCHANGED <<cycleConfig, cleanups, extractor, commands>>
    /\ UNCHANGED <<schedVars, storeVars, extractVars, lockVars, scriptVars>>

\* RunImageCheck as it would be with the cleanup after the try block instead
\* of in a finally clause
RunImageCheckNoFinally(side) ==
    /\ cpc = Validate(side)
    /\ \E start \in {"started", "APIError"}, status \in ExitStatuses,
          waited \in BOOLEAN, api_ok \in BOOLEAN :
        LET name == CheckName(side)
            cleaned == CleanupContainer(name, runtime \cup {name}, api_ok)
            outcome == IF start # "started" THEN start
                       ELSE IF ContainersRunRaises(TRUE, status)
                       THEN "ConfigurationError"
                       ELSE IF ~waited THEN "APIError"
                       ELSE "ok"
        IN  IF start # "started"
            THEN /\ trace' = Append(trace, Event(Validate(side), outcome, NoExit))
                 /\ cpc' = "state" /\ executed' = "False"
                 /\ UNCHANGED <<active_containers, runtime, started,
                                registered, cleanups>>
            ELSE /\ started' = started \cup {name}
                 /\ active_containers' = Append(active_containers, name)
                 /\ registered' = registered \cup {name}
                 /\ IF outcome = "ok"
                    THEN /\ cleanups' = Append(cleanups,
                                CleanupCall(name, "run_image_check",
                                            runtime \cup {name}, api_ok))
                         /\ runtime' = cleaned.runtime
                    ELSE /\ runtime' = runtime \cup {name}
                         /\ UNCHANGED cleanups
                 /\ trace' = Append(trace,
                        Event(Validate(side), outcome,
                              IF waited THEN status ELSE NoExit))
                 /\ IF outcome = "ok"
                    THEN cpc' = Run(side) /\ UNCHANGED executed
                    ELSE cpc' = "state" /\ executed' = "False"
    /\ UNCHANGED <<todo, removals, state_result, report, mfile>>
    /\ UNCHANGED <<cycleConfig, volumes, extractor, commands>>
    /\ UNCHANGED <<schedVars, storeVars, extractVars, lockVars, scriptVars>>

\* lines 664 / 689 and 538-573: run_image_check inside process_*_image.
\* `start` tells whether containers.run started the container, `status` is
\* the exit status of the container, `waited` whether container.wait()
\* returned, `api_ok` whether the runtime answers cleanup_container; the
\* finally clause calls cleanup_container on every way out
RunImageCheck(side) ==
    /\ cpc = Validate(side)
    /\ \E start \in {"started", "APIError"}, status \in ExitStatuses,
          waited \in BOOLEAN, api_ok \in BOOLEAN :
        LET name == CheckName(side)
            cleaned == CleanupContainer(name, runtime \cup {name}, api_ok)
            outcome == IF start # "started" THEN start
                       ELSE IF ContainersRunRaises(TRUE, status)
                       THEN "ConfigurationError"
                       ELSE IF ~waited THEN "APIError"
                       ELSE "ok"
        IN  IF start # "started"
            THEN /\ trace' = Append(trace, Event(Validate(side), outcome, NoExit))
                 /\ cpc' = "state" /\ executed' = "False"
                 /\ cleanups' = Append(cleanups,
                        CleanupCall(name, "run_image_check", runtime, api_ok))
                 /\ runtime' = CleanupContainer(name, runtime, api_ok).runtime
                 /\ UNCHANGED <<active_containers, started, registered>>
            ELSE /\ started' = started \cup {name}
                 /\ active_containers' = Append(active_containers, name)
                 /\ registered' = registered \cup {name}
                 /\ cleanups' = Append(cleanups,
                        CleanupCall(name, "run_image_check",
                                    runtime \cup {name}, api_ok))
                 /\ runtime' = cleaned.runtime
                 /\ trace' = Append(trace,
                        Event(Validate(side), outcome,
                              IF waited THEN status ELSE NoExit))
                 /\ IF outcome = "ok"
                    THEN cpc' = Run(side) /\ UNCHANGED executed
                    ELSE cpc' = "state" /\ executed' = "False"
    /\ UNCHANGED <<todo, removals, state_result, report, mfile>>
    /\ UNCHANGED <<cycleConfig, volumes, extractor, commands>>
    /\ UNCHANGED <<schedVars, storeVars, extractVars, lockVars, scriptVars>>

\* lines 671 / 696 and 575-615: _run_container_with_entrypoint inside
\* process_*_image; `connector` and `other` are the exit statuses of the two
\* commands of the pipeline, `left` tells whether the runtime still holds the
\* exited container (auto_remove has not removed it yet)
RunContainerWithEntrypoint(side) ==
    /\ cpc = Run(side)
    /\ \E start \in {"started", "APIError"}, connector \in ExitStatuses,
          other \in ExitStatuses, left \in BOOLEAN :
        LET name == RunName(side)
            status == ContainerExit(side, connector, other)
            outcome == IF start # "started" \/ ContainersRunRaises(FALSE, status)
                       THEN "ContainerExecutionError"
                       ELSE "ok"
        IN  /\ trace' = Append(trace,
                   Event(Run(side), outcome,
                         IF start = "started" THEN status ELSE NoExit))
            /\ commands' = [commands EXCEPT
                               ![side] = ConstructCommand(side, src_state_path)]
            /\ IF start = "started"
               THEN /\ started' = started \cup {name}
                    /\ runtime' = IF left THEN runtime \cup {name} ELSE runtime
                    /\ extractor' = IF side = "src" THEN connector ELSE extractor
               ELSE UNCHANGED <<started, runtime, extractor>>
            /\ IF outcome # "ok"
               THEN cpc' = "state" /\ executed' = "False"
               ELSE IF side = "src"
               THEN cpc' = Pull("dst") /\ UNCHANGED executed
               ELSE cpc' = "state" /\ executed' = "True"
    /\ UNCHANGED <<active_containers, registered, todo, removals,
                   state_result, report, mfile>>
    /\ UNCHANGED <<cycleConfig, volumes, cleanups>>
    /\ UNCHANGED <<schedVars, storeVars, extractVars, lockVars, scriptVars>>

\* line 911 and 872-886, 221-262: handle_state, whatever execute returned
HandleState ==
    /\ cpc = "state"
    /\ state_result' = RunStateScriptReturn(mfile)
    /\ mfile' = RunStateScript(mfile, CycleTask, now, now)
    /\ cpc' = "cleanup"
    /\ UNCHANGED <<trace, active_containers, runtime, started,
                   registered, todo, removals, executed, report>>
    /\ UNCHANGED <<cycleConfig, volumes, cleanups, extractor, commands>>
    /\ UNCHANGED <<schedVars, storeVars, extractVars, lockVars, scriptVars>>

\* lines 912 and 723: final_cleanup copies the list it iterates
FinalCleanup ==
    /\ cpc = "cleanup"
    /\ todo' = active_containers
    /\ cpc' = "cleaning"
    /\ UNCHANGED <<trace, active_containers, runtime, started,
                   registered, removals, executed, state_result, report, mfile>>
    /\ UNCHANGED <<cycleConfig, volumes, cleanups, extractor, commands>>
    /\ UNCHANGED <<schedVars, storeVars, extractVars, lockVars, scriptVars>>

\* FinalCleanupStep as it would be if it dropped every name it visited
FinalCleanupStepUnconditional ==
    /\ cpc = "cleaning" /\ todo # <<>>
    /\ \E api_ok \in BOOLEAN :
        LET container_name == Head(todo)
            cleaned == CleanupContainer(container_name, runtime, api_ok)
        IN  /\ removals' = Append(removals, container_name)
            /\ cleanups' = Append(cleanups,
                   CleanupCall(container_name, "final_cleanup", runtime, api_ok))
            /\ runtime' = cleaned.runtime
            /\ active_containers' =
                  SelectSeq(active_containers,
                            LAMBDA n : n # container_name)
            /\ todo' = Tail(todo)
    /\ UNCHANGED <<cpc, trace, started, registered, executed,
                   state_result, report, mfile>>
    /\ UNCHANGED <<cycleConfig, volumes, extractor, commands>>
    /\ UNCHANGED <<schedVars, storeVars, extractVars, lockVars, scriptVars>>

\* lines 723-725: one turn of the loop of final_cleanup
FinalCleanupStep ==
    /\ cpc = "cleaning" /\ todo # <<>>
    /\ \E api_ok \in BOOLEAN :
        LET container_name == Head(todo)
            cleaned == CleanupContainer(container_name, runtime, api_ok)
        IN  /\ removals' = Append(removals, container_name)
            /\ cleanups' = Append(cleanups,
                   CleanupCall(container_name, "final_cleanup", runtime, api_ok))
            /\ runtime' = cleaned.runtime
            /\ active_containers' =
                  IF cleaned.result
                  THEN SelectSeq(active_containers,
                                 LAMBDA n : n # container_name)
                  ELSE active_containers
            /\ todo' = Tail(todo)
    /\ UNCHANGED <<cpc, trace, started, registered, executed,
                   state_result, report, mfile>>
    /\ UNCHANGED <<cycleConfig, volumes, extractor, commands>>
    /\ UNCHANGED <<schedVars, storeVars, extractVars, lockVars, scriptVars>>

\* lines 726 and 913-915: final_cleanup returns, main logs the completion
FinalCleanupReturn ==
    /\ cpc = "cleaning" /\ todo = <<>>
    /\ report' = "completed successfully"
    /\ cpc' = "end"
    /\ UNCHANGED <<trace, active_containers, runtime, started,
                   registered, todo, removals, executed, state_result, mfile>>
    /\ UNCHANGED <<cycleConfig, volumes, cleanups, extractor, commands>>
    /\ UNCHANGED <<schedVars, storeVars, extractVars, lockVars, scriptVars>>

\* the manifests the cycle may find
CycleManifests ==
    {Absent, Json(EntryAt(SrcConfigMd5(CycleTask), CycleTask, 1)),
     Torn(EmptyMap), Denied}

CycleInit ==
    /\ SchedIdle /\ ExtractIdle /\ LockIdle /\ ScriptIdle
    /\ mfile \in CycleManifests
    /\ apc = "idle" /\ job = NoJob /\ existing = EmptyMap /\ before = mfile
    /\ cpc = "main"
    /\ images \in [src : BOOLEAN, dst : BOOLEAN]
    /\ trace = <<>> /\ active_containers = <<>> /\ runtime = {}
    /\ started = {} /\ registered = {} /\ todo = <<>> /\ removals = <<>>
    /\ executed = "none" /\ state_result = "none" /\ report = "none"
    /\ local_images \in SUBSET Sides
    /\ src_state_path \in BOOLEAN
    /\ CycleHistoryEmpty

CycleNext ==
    \/ HandleDocker
    \/ \E side \in Sides : PullDockerImage(side)
    \/ \E side \in Sides : PrepareVolumes(side)
    \/ \E side \in Sides : RunImageCheck(side)
    \/ \E side \in Sides : RunContainerWithEntrypoint(side)
    \/ HandleState \/ FinalCleanup \/ FinalCleanupStep \/ FinalCleanupReturn

CycleSpec == CycleInit /\ [][CycleNext]_vars

(***************************************************************************)
(* Claims about the run cycle.                                             *)
(***************************************************************************)
\* final_cleanup has returned (line 913 follows its return)
CleanupReturned == cpc = "end" /\ report = "completed successfully"

\* C14: when the existing manifest file holds malformed JSON or cannot be
\* accessed, the append fails without modifying the manifest file, and the
\* failure reaches the caller of the cycle as a fatal condition: the cycle
\* is not reported as completed successfully.
C14_ManifestFailurePropagates ==
    (cpc = "end" /\ state_result # "none" /\ before.kind \in {"torn", "denied"})
    => /\ mfile = before
       /\ report = "exit 1"

\* C14, the failing case reached: a cycle is over whose checkpoint step
\* found a malformed manifest
C14_CycleOverOnTornManifest ==
    /\ cpc = "end" /\ before.kind = "torn" /\ mfile = before
    /\ state_result # "none" /\ executed = "True"

\* the place of a stage in PULL, VALIDATE_SRC, VALIDATE_DST, RUN_SRC, RUN_DST
StageRank(stage) ==
    IF stage \in {"PULL_SRC", "PULL_DST"} THEN 1
    ELSE IF stage = "VALIDATE_SRC" THEN 2
    ELSE IF stage = "VALIDATE_DST" THEN 3
    ELSE IF stage = "RUN_SRC" THEN 4
    ELSE 5

\* C16: within one cycle the stages occur in the order PULL, VALIDATE_SRC,
\* VALIDATE_DST, RUN_SRC, RUN_DST; in particular the extractor is run only
\* after the validation of the destination configuration has passed.
C16_StagesInOrder ==
    /\ \A i \in 1..Len(trace), j \in 1..Len(trace) :
          i < j => StageRank(trace[i].stage) <= StageRank(trace[j].stage)
    /\ \A j \in 1..Len(trace) :
          trace[j].stage = "RUN_SRC"
          => \E i \in 1..(j - 1) :
                /\ trace[i].stage = "VALIDATE_DST"
                /\ trace[i].outcome = "ok" /\ trace[i].exit = 0

\* C16, the failing case reached: the extractor ran to its end and the
\* validation of the destination then found the configuration invalid
C16_ExtractorRanBeforeDstCheck ==
    /\ Len(trace) = 5
    /\ trace[3].stage = "RUN_SRC" /\ trace[3].outcome = "ok"
    /\ trace[5].stage = "VALIDATE_DST" /\ trace[5].exit = 1

\* the stage failed: it raised, or its validation container exited non-zero
StageFailed(e) ==
    \/ e.outcome \notin {"ok", "present", "pulled"}
    \/ e.stage \in {"VALIDATE_SRC", "VALIDATE_DST"} /\ e.exit \notin {0, NoExit}
    \/ e.stage \in {"RUN_SRC", "RUN_DST"} /\ e.exit # 0

\* C17: if any stage of a cycle fails, no later stage of the cycle is
\* attempted and no stage is attempted twice, and final_cleanup has been
\* executed when control returns from a cycle that attempted a stage.
C17_FailureEndsStagesThenCleanup ==
    /\ \A i \in 1..Len(trace), j \in 1..Len(trace) :
          i < j => /\ ~StageFailed(trace[i])
                   /\ trace[i].stage # trace[j].stage
    /\ (cpc = "end" /\ trace # <<>>) => CleanupReturned

\* C17, the failing case reached: the loader was run after the validation
\* container of the destination exited with status 1
C17_LoaderRanAfterFailedCheck ==
    /\ Len(trace) = 6
    /\ trace[5].stage = "VALIDATE_DST" /\ trace[5].exit = 1
    /\ trace[6].stage = "RUN_DST"
    /\ CleanupReturned

\* C18: after final_cleanup has returned no name remains tracked: every name
\* ever added to the active container set has been removed from it.
C18_CleanupLeavesNothingTracked ==
    CleanupReturned => active_containers = <<>>

\* C18, the failing case reached: final_cleanup returned after a removal
\* that the runtime API refused
C18_CleanupReturnedWithTracked ==
    CleanupReturned /\ removals # <<>> /\ active_containers # <<>>

\* C19: every container started during a run, the validation containers as
\* well as the extractor and loader run containers, has its name registered
\* in the active container set.
C19_StartedAreRegistered ==
    started \subseteq registered

\* C19, the failing case reached: the extractor's run container was started
\* and its name was never registered
C19_RunContainerUntracked ==
    /\ RunName("src") \in started
    /\ RunName("src") \notin registered
    /\ CheckName("src") \in registered

\* C20: run_image_check raises the configuration-invalid error whenever the
\* validation container exits with a non-zero status and returns normally
\* only when it exited with status 0, so no run stage follows a validation
\* whose container exited non-zero.
C20_NonZeroExitRaises ==
    \A i \in 1..Len(trace) :
        (trace[i].stage \in {"VALIDATE_SRC", "VALIDATE_DST"}
         /\ trace[i].exit # NoExit)
        => /\ trace[i].outcome = "ok" <=> trace[i].exit = 0
           /\ trace[i].exit # 0
              => /\ trace[i].outcome = "ConfigurationError"
                 /\ \A j \in (i + 1)..Len(trace) :
                       trace[j].stage \notin {"RUN_SRC", "RUN_DST"}

\* C20, the failing case reached: the extractor was run after the validation
\* container of the source exited with status 1
C20_RunAfterInvalidConfig ==
    /\ Len(trace) >= 3
    /\ trace[2].stage = "VALIDATE_SRC" /\ trace[2].exit = 1
    /\ trace[3].stage = "RUN_SRC"

\* the calls of cleanup_container made by `by` for the container `name`
CleanupsOf(name, by) ==
    {c \in 1..Len(cleanups) : cleanups[c].name = name /\ cleanups[c].by = by}

\* the events of the stage in the trace
EventsOf(stage) == {k \in 1..Len(trace) : trace[k].stage = stage}

\* C21: on every way out of the configuration check (it passed, it failed,
\* starting or waiting for the container raised) the removal of that
\* invocation's container is attempted before control returns: a check that
\* has returned has made exactly one cleanup_container call for its name.
C21_CheckAlwaysCleansUp ==
    \A side \in Sides :
        Cardinality(CleanupsOf(CheckName(side), "run_image_check"))
            = Cardinality(EventsOf(Validate(side)))

\* C21, the case reached: the check of the source neither passed, because
\* waiting for its container raised, nor was its container removed, because
\* the runtime refused, and the removal was attempted all the same
C21_CleanupAfterFailedWait ==
    /\ Len(trace) = 2
    /\ trace[2].stage = "VALIDATE_SRC" /\ trace[2].outcome = "APIError"
    /\ CheckName("src") \in started
    /\ Len(cleanups) = 1
    /\ cleanups[1].name = CheckName("src") /\ ~cleanups[1].result

\* a pull that raised
PullFailed(event) ==
    event.outcome \in {"DockerImageNotFoundError", "Exception"}

C22_LoaderOnlyAfterExtractorSucceeded ==
    RunName("dst") \in started
    => /\ \E k \in EventsOf(Run("src")) :
             /\ trace[k].outcome = "ok"
             /\ \A j \in EventsOf(Run("dst")) : k < j
       /\ extractor = 0

\* C22, the failing case reached: the extractor exited with status 1, tee
\* exited with status 0 and so did the source container, and the loader was
\* started on what the extractor had written until then
C22_LoaderRanAfterFailedExtractor ==
    /\ extractor = 1
    /\ Len(trace) = 6
    /\ trace[3].stage = "RUN_SRC" /\ trace[3].outcome = "ok"
    /\ trace[3].exit = 0
    /\ trace[6].stage = "RUN_DST"
    /\ RunName("dst") \in started

\* C24: removing a container by name is idempotent. cleanup_container
\* reports success both when it removed the container and when no container
\* of that name exists, a second call after a successful one reports success
\* and changes nothing, and only an error of the runtime API is reported as
\* failure, in which case nothing is removed.
C24_CleanupIdempotent ==
    \A c \in 1..Len(cleanups) :
        LET call == cleanups[c]
            again == CleanupContainer(call.name, call.runtime, TRUE)
        IN  /\ call.result <=> call.api_ok
            /\ call.result => call.runtime = call.held \ {call.name}
            /\ ~call.result => call.runtime = call.held
            /\ (call.api_ok /\ call.name \notin call.held)
               => call.result /\ call.runtime = call.held
            /\ call.result => again.result /\ again.runtime = call.runtime

\* C24, the case reached: the container of the source check was removed when
\* the check returned, and final_cleanup asked for its removal once more
C24_RemovedTwice ==
    \E c \in 1..Len(cleanups), d \in 1..Len(cleanups) :
        /\ c < d
        /\ cleanups[c].name = CheckName("src")
        /\ cleanups[d].name = CheckName("src")
        /\ cleanups[c].result
        /\ CheckName("src") \in cleanups[c].held
        /\ CheckName("src") \notin cleanups[d].held
        /\ cleanups[d].result

\* the names tracked when final_cleanup is entered, in the order in which
\* the checks that registered them ran
TrackedNames ==
    LET checks == SelectSeq(trace, LAMBDA e :
                      \E side \in Sides : /\ e.stage = Validate(side)
                                          /\ CheckName(side) \in registered)
    IN  [k \in 1..Len(checks) |->
            IF checks[k].stage = Validate("src")
            THEN CheckName("src") ELSE CheckName("dst")]

\* the names final_cleanup has asked cleanup_container to remove, in order
FinalCleanupCalls ==
    LET calls == SelectSeq(cleanups, LAMBDA c : c.by = "final_cleanup")
    IN  [k \in 1..Len(calls) |-> calls[k].name]

\* the removal of the name by final_cleanup reported failure
RemovalFailed(name) ==
    \E c \in CleanupsOf(name, "final_cleanup") : ~cleanups[c].result

\* C29: final_cleanup attempts the removal of each tracked name exactly once,
\* in list order; afterwards the active container list holds exactly the
\* names whose removal reported failure, in their original order, and every
\* name whose removal succeeded is gone from it. While the loop runs the
\* names not visited yet are still in the list.
C29_FinalCleanupKeepsFailedOnly ==
    (cpc = "cleaning" \/ CleanupReturned)
    => /\ removals \o todo = TrackedNames
       /\ FinalCleanupCalls = removals
       /\ \A k \in 1..Len(removals) :
             Cardinality(CleanupsOf(removals[k], "final_cleanup")) = 1
       /\ active_containers =
             SelectSeq(TrackedNames, LAMBDA n :
                 RemovalFailed(n) \/ \E k \in 1..Len(todo) : todo[k] = n)
       /\ CleanupReturned => todo = <<>>

\* C29, the case reached: two names were tracked, the removal of the first
\* failed and the removal of the second succeeded
C29_FirstKeptSecondDropped ==
    /\ CleanupReturned
    /\ removals = <<CheckName("src"), CheckName("dst")>>
    /\ RemovalFailed(CheckName("src"))
    /\ ~RemovalFailed(CheckName("dst"))
    /\ active_containers = <<CheckName("src")>>

\* the stage was attempted and returned without raising
StageCompleted(stage) ==
    \E k \in EventsOf(stage) : trace[k].outcome \in {"ok", "present", "pulled"}

\* all the stages of one side returned without raising
SideCompleted(side) ==
    /\ StageCompleted(Pull(side))
    /\ volumes[side].prepared
    /\ StageCompleted(Validate(side))
    /\ StageCompleted(Run(side))

\* no stage of the destination was attempted
NoDstStage ==
    /\ EventsOf(Pull("dst")) = {}
    /\ EventsOf(Validate("dst")) = {}
    /\ EventsOf(Run("dst")) = {}
    /\ volumes["dst"] = NoVolumes

\* C30: execute returns True if and only if both images are provided and
\* every stage of the source and then of the destination (pull, volume
\* preparation, configuration check, run) completes without raising; a
\* missing image or a failed stage gives False, never an exception, and when
\* the source image is missing or its processing fails no destination stage
\* is run.
C30_ExecuteTrueIffAllStagesPass ==
    executed # "none"
    => /\ executed \in {"True", "False"}
       /\ executed = "True"
          <=> /\ images.src /\ images.dst
              /\ SideCompleted("src") /\ SideCompleted("dst")
       /\ executed = "True"
          => \A k \in EventsOf(Run("src")), j \in EventsOf(Pull("dst")) : k < j
       /\ (~images.src \/ ~images.dst)
          => trace = <<>> /\ volumes = [side \in Sides |-> NoVolumes]
       /\ ~SideCompleted("src") => NoDstStage

\* C30, the case reached: the creation of the checkpoint file failed while
\* the volumes of the source were prepared, after its image was pulled;
\* execute returned False and nothing of the destination was attempted
C30_FalseOnVolumeFailure ==
    /\ executed = "False"
    /\ images.src /\ images.dst
    /\ Len(trace) = 1 /\ trace[1].outcome = "pulled"
    /\ volumes["src"].error = "OSError"
    /\ NoDstStage
    /\ cpc = "end"

(***************************************************************************)
(* The lock around main (run.py LockManager, lines 66-142).  Each instance *)
(* is one process running main once.  The lock is an exclusive flock on    *)
(* the file the lock path names; a file is identified by its inode, so     *)
(* that removing the path and creating it again gives a different file.    *)
(***************************************************************************)
DEFAULT_TIMEOUT == 1

\* the instances that hold a lock on the file
Holders(file) == {j \in Instances : flock[j] = file}

\* the file an attempt to lock opens: the one the path names, or a new one
\* when there is none (os.open with O_CREAT)
OpenedFile == IF lock_file = 0 THEN inodes + 1 ELSE lock_file

\* AcquireLock as it would be if acquire_lock let the Timeout out
AcquireLockRaising(i) ==
    /\ lpc[i] = "acquiring"
    /\ \E opened \in BOOLEAN :
        IF ~opened
        THEN /\ lpc' = [lpc EXCEPT ![i] = "raised"]
             /\ UNCHANGED <<has_lock, flock, lock_file, inodes, polls,
                            timed_out>>
        ELSE /\ lock_file' = OpenedFile
             /\ inodes' = IF lock_file = 0 THEN inodes + 1 ELSE inodes
             /\ IF Holders(OpenedFile) = {}
                THEN /\ flock' = [flock EXCEPT ![i] = OpenedFile]
                     /\ has_lock' = [has_lock EXCEPT ![i] = TRUE]
                     /\ lpc' = [lpc EXCEPT ![i] = "body"]
                     /\ UNCHANGED <<polls, timed_out>>
                ELSE IF polls[i] < DEFAULT_TIMEOUT
                THEN /\ polls' = [polls EXCEPT ![i] = polls[i] + 1]
                     /\ UNCHANGED <<lpc, has_lock, flock, timed_out>>
                ELSE /\ timed_out' = timed_out \cup {i}
                     /\ lpc' = [lpc EXCEPT ![i] = "raised"]
                     /\ UNCHANGED <<has_lock, flock, polls>>
    /\ UNCHANGED same_dir
    /\ UNCHANGED <<mfile, schedVars, storeVars, extractVars, cycleVars,
                   scriptVars>>

\* lines 889-890, 80-94, 102-105: main enters `with LockManager()`
EnterLockManager(i) ==
    /\ lpc[i] = "out"
    /\ lpc' = [lpc EXCEPT ![i] = "acquiring"]
    /\ UNCHANGED <<has_lock, flock, lock_file, inodes, polls, timed_out,
                   same_dir>>
    /\ UNCHANGED <<mfile, schedVars, storeVars, extractVars, cycleVars,
                   scriptVars>>

\* lines 113-125: acquire_lock, one attempt of FileLock.acquire per step.
\* An attempt opens the lock file, creating it when missing (`opened` tells
\* whether that succeeded) and asks for a non-blocking exclusive flock; a
\* failed attempt is repeated until more than DEFAULT_TIMEOUT has passed,
\* then Timeout is raised, which acquire_lock logs and swallows; any other
\* exception is logged and raised again
AcquireLock(i) ==
    /\ lpc[i] = "acquiring"
    /\ \E opened \in BOOLEAN :
        IF ~opened
        THEN /\ lpc' = [lpc EXCEPT ![i] = "raised"]
             /\ UNCHANGED <<has_lock, flock, lock_file, inodes, polls,
                            timed_out>>
        ELSE /\ lock_file' = OpenedFile
             /\ inodes' = IF lock_file = 0 THEN inodes + 1 ELSE inodes
             /\ IF Holders(OpenedFile) = {}
                THEN /\ flock' = [flock EXCEPT ![i] = OpenedFile]
                     /\ has_lock' = [has_lock EXCEPT ![i] = TRUE]
                     /\ lpc' = [lpc EXCEPT ![i] = "body"]
                     /\ UNCHANGED <<polls, timed_out>>
                ELSE IF polls[i] < DEFAULT_TIMEOUT
                THEN /\ polls' = [polls EXCEPT ![i] = polls[i] + 1]
                     /\ UNCHANGED <<lpc, has_lock, flock, timed_out>>
                ELSE /\ timed_out' = timed_out \cup {i}
                     /\ lpc' = [lpc EXCEPT ![i] = "body"]
                     /\ UNCHANGED <<has_lock, flock, polls>>
    /\ UNCHANGED same_dir
    /\ UNCHANGED <<mfile, schedVars, storeVars, extractVars, cycleVars,
                   scriptVars>>

\* lines 891-923: the protected block, the orchestration of one cycle; it
\* ends by falling through or by sys.exit(1), and both leave the with block
ProtectedBody(i) ==
    /\ lpc[i] = "body"
    /\ lpc' = [lpc EXCEPT ![i] = "exit"]
    /\ UNCHANGED <<has_lock, flock, lock_file, inodes, polls, timed_out,
                   same_dir>>
    /\ UNCHANGED <<mfile, schedVars, storeVars, extractVars, cycleVars,
                   scriptVars>>

\* lines 107-111 and 127-142: __exit__ removes ".script.lock" of the working
\* directory when it exists, then release_lock releases the flock if this
\* instance holds it and only warns otherwise
ExitLockManager(i) ==
    /\ lpc[i] = "exit"
    /\ lock_file' = IF same_dir THEN 0 ELSE lock_file
    /\ IF has_lock[i]
       THEN /\ flock' = [flock EXCEPT ![i] = 0]
            /\ has_lock' = [has_lock EXCEPT ![i] = FALSE]
       ELSE UNCHANGED <<flock, has_lock>>
    /\ lpc' = [lpc EXCEPT ![i] = "done"]
    /\ UNCHANGED <<inodes, polls, timed_out, same_dir>>
    /\ UNCHANGED <<mfile, schedVars, storeVars, extractVars, cycleVars,
                   scriptVars>>

\* no instance has started; a lock file may be left from an earlier run
\* (FileLock.release does not remove it), and the working directory may or
\* may not be the directory of the script
LockInit ==
    /\ SchedIdle /\ ExtractIdle /\ CycleIdle /\ ScriptIdle
    /\ mfile = Absent
    /\ apc = "idle" /\ job = NoJob /\ existing = EmptyMap /\ before = mfile
    /\ lpc = [i \in Instances |-> "out"]
    /\ has_lock = [i \in Instances |-> FALSE]
    /\ flock = [i \in Instances |-> 0]
    /\ lock_file \in {0, 1} /\ inodes = lock_file
    /\ polls = [i \in Instances |-> 0]
    /\ timed_out = {}
    /\ same_dir \in BOOLEAN

LockNext ==
    \/ \E i \in Instances : EnterLockManager(i)
    \/ \E i \in Instances : AcquireLock(i)
    \/ \E i \in Instances : ProtectedBody(i)
    \/ \E i \in Instances : ExitLockManager(i)

LockSpec == LockInit /\ [][LockNext]_vars

(***************************************************************************)
(* Claims about the lock.                                                  *)
(***************************************************************************)
\* the instances executing the protected body
InBody == {i \in Instances : lpc[i] = "body"}

\* C25: single-instance mutual exclusion: for any interleaving of instances
\* started against the same lock file, at most one instance at a time
\* executes the protected body.
C25_MutualExclusion ==
    Cardinality(InBody) <= 1

\* C25, the failing case reached: one instance executes the body holding
\* the lock while a second one, whose acquisition timed out, executes it too
C25_TwoInBody ==
    \E i \in Instances, j \in Instances :
        /\ i # j
        /\ lpc[i] = "body" /\ has_lock[i]
        /\ lpc[j] = "body" /\ j \in timed_out /\ ~has_lock[j]
        /\ flock[i] = lock_file

\* C26: an instance that cannot acquire the lock within the timeout logs a
\* warning and then executes the protected body without holding the lock: the
\* timeout never raises and never aborts the invocation. The instances in
\* the body without the lock are those that timed out.
C26_TimeoutProceedsWithoutLock ==
    \A i \in Instances :
        /\ i \in timed_out
           => /\ lpc[i] \in {"body", "exit", "done"}
              /\ ~has_lock[i] /\ flock[i] = 0
              /\ polls[i] >= DEFAULT_TIMEOUT
        /\ (lpc[i] = "body" /\ ~has_lock[i]) => i \in timed_out

\* C26, the case reached: an instance timed out while another one held the
\* lock, and has executed the body and left the with block
C26_TimedOutRanToEnd ==
    \E i \in Instances, j \in Instances :
        /\ i \in timed_out /\ lpc[i] = "done"
        /\ has_lock[j] /\ lpc[j] = "body"

(***************************************************************************)
(* Claims about the run ledger and the passes of the scheduler.            *)
(***************************************************************************)
\* the names of the jobs of the task list
JobNames == {Tasks[i].name : i \in 1..Len(Tasks)}

\* the step adds one row to the ledger and leaves the rows it had
RowAdded ==
    /\ Len(ledger') = Len(ledger) + 1
    /\ SubSeq(ledger', 1, Len(ledger)) = ledger

\* C27: the run ledger is append-only. Every step of a pass leaves the
\* existing rows unchanged; a step that adds a row adds one row, for the
\* enabled job the pass is at, and moves the pass on to the next job, and the
\* pass goes back in the list only when a new pass starts, so a pass adds at
\* most one row per enabled job; a job's last-run time never decreases.
C27_LedgerAppendOnly ==
    [][/\ ledger' = ledger \/ RowAdded
       /\ ledger' # ledger
          => /\ idx \in 1..Len(Tasks) /\ Tasks[idx].enabled
             /\ ledger'[Len(ledger')].name = Tasks[idx].name
             /\ idx' = idx + 1
       /\ idx' < idx => idx' = 1 /\ pc \in {"done", "returned", "crashed"}
       /\ \A name \in JobNames :
             LastRunTime(ledger', name) >= LastRunTime(ledger, name)]_vars

\* C27, the case reached: a later pass added a second row for a job and the
\* row of the earlier pass is still there
C27_TwoRowsForOneJob ==
    \E r \in 1..Len(ledger), q \in 1..Len(ledger) :
        /\ r < q
        /\ ledger[r].name = ledger[q].name
        /\ ledger[r].time < ledger[q].time
        /\ LastRunTime(ledger, ledger[r].name) = ledger[q].time

\* the cycle of the job the pass is at is in progress
CycleInProgress == pc \in {"wait", "running"}

\* C28: a validation or execution failure of one job aborts only that job's
\* current cycle: when the cycle of a job ends in failure (the config fetch
\* fails, or the run command exits non-zero) the same pass goes on to
\* evaluate the next job of the list.
C28_FailureAbortsOnlyThatJob ==
    [][(CycleInProgress /\ pc' \notin {"wait", "running", "upload"})
       => (pc' = "loop" /\ idx' = idx + 1)]_vars

\* C28, the failing case reached: the run command of the first job exited
\* non-zero and the pass is over with the second job, which is enabled, not
\* evaluated
C28_PassDiedAtFirstJob ==
    /\ pc = "crashed" /\ result = "CalledProcessError"
    /\ idx = 1 /\ Tasks[2].enabled
    /\ eval.due /\ eval.idx = 1

(***************************************************************************)
(* run_state_script on its own (run.py lines 221-262): the function is     *)
(* called with state_main ending in each possible way, and every call is   *)
(* recorded with what it returned and whether execute logged a failure.    *)
(***************************************************************************)
\* lines 221-262: StateHandler.execute calls run_state_script, which calls
\* state_main; execute logs an error `if not success`
RunStateScriptCall ==
    /\ Len(script_calls) < MaxCalls
    /\ \E raised \in StateMainEndings :
        script_calls' = Append(script_calls,
            [raised |-> raised,
             result |-> RunStateScriptResult(raised),
             failure_logged |-> RunStateScriptResult(raised) # "True"])
    /\ UNCHANGED <<mfile, schedVars, storeVars, extractVars, cycleVars,
                   lockVars>>

ScriptInit ==
    /\ SchedIdle /\ ExtractIdle /\ CycleIdle /\ LockIdle
    /\ mfile = Absent
    /\ apc = "idle" /\ job = NoJob /\ existing = EmptyMap /\ before = mfile
    /\ script_calls = <<>>

ScriptNext == RunStateScriptCall

ScriptSpec == ScriptInit /\ [][ScriptNext]_vars

\* C31: run_state_script returns True exactly when state_main completes
\* without raising, and returns False for every kind of exception state_main
\* raises, file-not-found and JSON-decode errors included; it never
\* propagates the exception.
C31_TrueOrFalse ==
    \A c \in 1..Len(script_calls) :
        /\ script_calls[c].result = "True" <=> script_calls[c].raised = "none"
        /\ script_calls[c].raised # "none" => script_calls[c].result = "False"

\* C31, the failing case reached: state_main raised JSONDecodeError and
\* run_state_script returned None
C31_NoneOnJsonDecodeError ==
    /\ Len(script_calls) = 1
    /\ script_calls[1].raised = "JSONDecodeError"
    /\ script_calls[1].result = "None"
    /\ script_calls[1].failure_logged

\* the key under which the cycle's append would store its entry
CycleKey == GetKeyValue(SrcConfigMd5(CycleTask), OutputPath(CycleTask))

\* C32: a checkpoint entry is written to the manifest in a cycle only if
\* both the extractor and the loader of that cycle completed successfully:
\* when the pull, validation or run of either side failed, the manifest and
\* the job's latest checkpoint are exactly as they were before the cycle.
C32_NoCheckpointFromFailedRun ==
    /\ mfile # before => executed = "True" /\ extractor = 0
    /\ executed # "True"
       => /\ mfile = before
          /\ GetMaxStateFromManifest(mfile, CycleKey)
                = GetMaxStateFromManifest(before, CycleKey)

\* C32, the case reached: the extractor ran, the loader failed, the
\* checkpoint step was executed all the same, and the manifest still holds
\* the checkpoint it held before the cycle
C32_CheckpointKeptAfterFailedLoader ==
    /\ cpc = "end" /\ executed = "False"
    /\ Len(trace) = 6
    /\ trace[3].stage = "RUN_SRC" /\ trace[3].outcome = "ok"
    /\ trace[6].stage = "RUN_DST" /\ trace[6].outcome # "ok"
    /\ state_result = "False"
    /\ before.kind = "json" /\ mfile = before
    /\ GetMaxStateFromManifest(mfile, CycleKey)
          = Str(StateFilePath(CycleTask, 1))

\* the ledger holds the row (name, time)
HasRow(name, time) ==
    \E r \in 1..Len(ledger) : ledger[r].name = name /\ ledger[r].time = time

\* the run command of the job the pass is at was launched and has completed,
\* and the pass is at or past the forwarding of its log
RunCompleted ==
    /\ launched.ok
    /\ pc = "upload" \/ (pc = "crashed" /\ result = "ClientError")

\* C33: in a job's cycle the run is recorded in the ledger before the log
\* output is forwarded, so every job whose run command completed in a pass
\* has a ledger entry for that pass even when forwarding the logs fails.
C33_RecordedBeforeForwarding ==
    RunCompleted => HasRow(Task.name, current_time)

\* C33, the failing case reached: the run command of the first job
\* completed, forwarding its log raised, and the ledger has no row
C33_ForwardingFailedNoRow ==
    /\ pc = "crashed" /\ result = "ClientError"
    /\ launched.ok /\ idx = 1
    /\ ledger = <<>>

\* C34: a ledger entry for a job is recorded in a pass only if that pass
\* launched the job's run command: when execute_task finds the job running
\* and returns 2 without launching, the pass records no run for the job.
C34_RecordedOnlyIfLaunched ==
    [][ledger' # ledger => launched.ok]_vars

\* C34, the failing case reached: execute_task found the command running
\* and launched nothing, the log was forwarded and the pass is at the insert
C34_RecordingUnlaunchedRun ==
    /\ pc = "record"
    /\ eval.running /\ ~launched.ok
    /\ IsTaskRunning(procs, RenderTaskCmd(Task, state_loc))

\* the fire times of a schedule within the clock of the model
FireTimes(period) == {t \in 1..MaxTime : t % period = 0}

\* C35: a cron fire is never lost to a long run: the timestamp recorded in
\* the ledger is the time at which the pass evaluated the job, taken before
\* the resource wait and the execution, so a job with a fire time after its
\* last recorded time and before the evaluation of a later pass is due in
\* that pass.
C35_FireDuringRunIsDue ==
    [][/\ ledger' # ledger
          => /\ ledger'[Len(ledger')].time = current_time
             /\ eval.idx = idx => current_time = eval.at
       /\ (eval'.idx # 0 /\ eval' # eval)
          => ((\E f \in FireTimes(Tasks[eval'.idx].period) :
                  eval'.last < f /\ f < eval'.at)
              => eval'.due)]_vars

\* C35, the case reached: a pass evaluates a job whose last recorded time
\* is earlier than its latest fire, the run recorded then having lasted past
\* that fire, and finds it due
C35_DueAgainAfterLongRun ==
    /\ eval.idx = 1 /\ eval.due /\ pc = "lookup"
    /\ eval.last > 0 /\ HasRow(Tasks[1].name, eval.last)
    /\ eval.last < eval.fire /\ eval.fire < eval.at
    /\ eval.at = eval.last + Tasks[1].period + 1

(***************************************************************************)
(* Further claims about process_data_file and the extraction.              *)
(***************************************************************************)
\* the manifest holds an entry of the job that names the state file path
EntryNamesStateFile(file, j) ==
    /\ file.kind = "json"
    /\ \E e \in 1..Len(Get(file.content, JobKey(j))) :
          Get(file.content, JobKey(j))[e].state_file_path
              = StateFilePath(j.task, j.epoch)

\* C36: every entry in the manifest names a state_file_path whose state.json
\* was completely written before the entry was appended: the state file
\* write precedes the manifest append, wherever the processing stops, and no
\* entry exists for a data file whose extraction or state-file write failed.
C36_StateFileBeforeEntry ==
    /\ mfile # before
       => /\ state_json = StateFile(first)
          /\ EntryNamesStateFile(mfile, ExtractJob)
          /\ xpc \in {"appended", "again", "done", "raised"}
    /\ ~state_json.written => mfile = before
    /\ xpc \in {"extract", "extracted", "saved_state"} => mfile = before

\* C36, the case reached: the state file holds the snapshots of both streams
\* and the entry naming it has just been appended to an existing manifest
C36_EntryAfterCompleteStateFile ==
    /\ xpc = "appended"
    /\ before.kind = "json" /\ mfile # before
    /\ state_json.written /\ DOMAIN state_json.content = Streams
    /\ EntryNamesStateFile(mfile, ExtractJob)

(***************************************************************************)
(* Further claims about the scheduler's checkpoint lookup.                 *)
(***************************************************************************)
\* a manifest file state that the append accepts and that holds no entry
\* under the key: absent, present but empty, or well-formed JSON without the
\* key or with an empty list
NoEntryFor(file, key) ==
    \/ file.kind \in {"absent", "empty", "blank"}
    \/ file.kind = "json" /\ Get(file.content, key) = <<>>

\* C37: the scheduler's latest-checkpoint lookup succeeds with the result
\* 'none' for every manifest file state that the append accepts as valid and
\* that holds no entry for the job; in none of these states does the lookup
\* raise or stop the pass.
C37_LookupToleratesNoEntry ==
    (idx \in 1..Len(Tasks) /\ NoEntryFor(mfile, Task.id))
    => /\ GetMaxStateFromManifest(mfile, Task.id) = EmptyDict
       /\ ~(pc = "crashed" /\ result = "JSONDecodeError")

\* C37, the failing case reached: the manifest file is there and empty, the
\* first job was due, and the lookup ended the pass with JSONDecodeError
C37_EmptyManifestStopsPass ==
    /\ mfile = Truncated
    /\ ReadManifest(mfile).error = "none"
    /\ pc = "crashed" /\ result = "JSONDecodeError"
    /\ idx = 1 /\ eval.due

(***************************************************************************)
(* Further claims about the lock.                                          *)
(***************************************************************************)
\* C38: an instance whose lock acquisition timed out does not disturb the
\* lock when it leaves the protected block: its exit neither releases the
\* lock held by another instance nor removes the lock file the holder is
\* using, so a later instance still cannot acquire the lock while the
\* holder is running.
C38_TimedOutExitLeavesLock ==
    [][\A i \in Instances :
          (i \in timed_out /\ lpc[i] = "exit" /\ lpc'[i] = "done")
          => /\ flock' = flock /\ has_lock' = has_lock
             /\ lock_file' = lock_file]_vars

\* C38, the failing case reached: the exit of the instance that timed out
\* removed the lock file, a third instance locked the file it created in
\* its place, and it executes the body together with the original holder
C38_ThirdInstanceAcquired ==
    \E i \in Instances, j \in Instances, k \in Instances :
        /\ i \in timed_out /\ lpc[i] = "done"
        /\ j # k /\ j # i /\ k # i
        /\ has_lock[j] /\ lpc[j] = "body"
        /\ has_lock[k] /\ lpc[k] = "body"
        /\ flock[j] # flock[k] /\ flock[k] = lock_file
        /\ polls[k] = 0

\* the state lines of the stream the loop has been through
SeenLinesOf(stream) == {i \in StateLinesOf(stream) : i < pos}

\* the first of the lines whose payload has the greatest created value
FirstGreatest(lines) ==
    LET top == {i \in lines : \A j \in lines :
                   Created(StreamData(data[j])) <= Created(StreamData(data[i]))}
    IN  CHOOSE i \in top : \A j \in top : i <= j

\* C39: a stored snapshot of a stream is replaced only by a payload whose
\* created is strictly greater: among state lines of one stream with equal
\* created values, and in particular when no payload of the stream carries a
\* created field at all, the snapshot is the payload of the first such line
\* and every later payload of that stream is discarded. At every point of
\* the loop the snapshot is the payload of the first line, among those gone
\* through, that has the greatest created value.
C39_FirstOfEqualCreatedKept ==
    xpc \in {"extract", "extracted", "saved_state", "appended", "again", "done"}
    => \A s \in Streams :
          IF SeenLinesOf(s) = {} THEN s \notin DOMAIN final_state
          ELSE /\ s \in DOMAIN final_state
               /\ final_state[s] = StreamData(data[FirstGreatest(SeenLinesOf(s))])

\* C39, the case reached: two state lines of one stream, neither payload
\* with a created field; the snapshot is the first payload
C39_NoCreatedFirstKept ==
    /\ xpc = "extracted" /\ Len(data) = 2
    /\ data[1] = StateLine("users", DataOf("users", [cursor |-> "a"]))
    /\ data[2] = StateLine("users", DataOf("users", [cursor |-> "b"]))
    /\ final_state = [s \in {"users"} |-> [cursor |-> "a"]]

(***************************************************************************)
(* Further claims about the run cycle.                                     *)
(***************************************************************************)
\* C40: resume-state wiring is consistent: the extractor is given the
\* `--state /state.json` argument if and only if its volume bindings include
\* the read-write binding of the checkpoint file to /state.json, which is the
\* case exactly when a checkpoint path is configured for the run; the
\* loader's volume bindings never include the checkpoint binding.
C40_StateArgIffStateBinding ==
    /\ volumes["src"].prepared
       => (volumes["src"].state <=> src_state_path)
    /\ commands["src"].built
       => /\ volumes["src"].prepared
          /\ commands["src"].state_arg <=> volumes["src"].state
    /\ ~volumes["dst"].state
    /\ ~commands["dst"].state_arg

\* C40, the case reached: a checkpoint path is configured, the extractor was
\* run with the binding and the argument, and the loader with neither
C40_ResumeStateWired ==
    /\ src_state_path
    /\ volumes["src"].state /\ commands["src"].state_arg
    /\ volumes["dst"].prepared /\ commands["dst"].built
    /\ executed = "True"

====
